---- MODULE Spec2Model ----
(***************************************************************************)
(* A model of zeta-scale-go: the chunked summation engine                  *)
(* (calculateSpiralPartialSums), the pixel-space downsampler               *)
(* (downsampleComplexSerial / downsampleComplex) and the group averaging   *)
(* (downsample) of cmd/spiral, reimannSiegelWithLinks of                   *)
(* cmd/reimann-siegal and the publishing loop of the NATS client.          *)
(*                                                                         *)
(* Numbers.  A float64 is modelled as an integer count of 1/60 units that  *)
(* keeps only Precision significant bits: every arithmetic result is       *)
(* rounded to nearest (ties to even), as IEEE-754 does with 53 bits.  A    *)
(* complex128 is a record [re, im, fin]; fin = FALSE stands for any value  *)
(* with an Inf or NaN component.                                           *)
(***************************************************************************)
EXTENDS Integers, Sequences, FiniteSets, TLC

\* ------------------------------------------------------------------ bounds
\* significant bits kept by the modelled float64
Precision == 4
\* largest value of the -maxN flag explored
MaxTerms == 5
\* largest ChunkSize explored
MaxChunk == 3

\* ------------------------------------------------------- float64 arithmetic
Abs(x) == IF x < 0 THEN -x ELSE x

Max(a, b) == IF a >= b THEN a ELSE b

Min(a, b) == IF a <= b THEN a ELSE b

\* Go's integer division truncates toward zero.
GoDiv(a, b) ==
    IF (a >= 0) = (b > 0) THEN Abs(a) \div Abs(b) ELSE -(Abs(a) \div Abs(b))

\* the spacing of representable numbers around the magnitude a
RECURSIVE QuantumFrom(_, _)
QuantumFrom(a, q) == IF a < (2 ^ Precision) * q THEN q ELSE QuantumFrom(a, 2 * q)

Quantum(a) == QuantumFrom(a, 1)

\* round the natural a to Precision significant bits, ties to even
RndNat(a) ==
    LET q  == Quantum(a)
        lo == (a \div q) * q
        r  == a - lo
    IN  IF 2 * r < q THEN lo
        ELSE IF 2 * r > q THEN lo + q
        ELSE IF (lo \div q) % 2 = 0 THEN lo ELSE lo + q

Rnd(x) == IF x >= 0 THEN RndNat(x) ELSE -RndNat(-x)

\* a / b rounded to the nearest integer, half away from zero (b > 0)
RoundDiv(a, b) ==
    IF a >= 0 THEN (2 * a + b) \div (2 * b) ELSE -((2 * (-a) + b) \div (2 * b))

FAdd(a, b) == Rnd(a + b)

FDiv(a, b) == Rnd(RoundDiv(a, b))

\* floor of the square root of a natural
RECURSIVE ISqrtFrom(_, _)
ISqrtFrom(n, r) == IF (r + 1) * (r + 1) > n THEN r ELSE ISqrtFrom(n, r + 1)

\* the search starts from twice the root of n \div 4, which is the root or one
\* below it
RECURSIVE ISqrt(_)
ISqrt(n) == IF n < 4 THEN ISqrtFrom(n, 0) ELSE ISqrtFrom(n, 2 * ISqrt(n \div 4))

\* ---------------------------------------------------------------- complex128
Cx(a, b) == [re |-> a, im |-> b, fin |-> TRUE]

Zero == Cx(0, 0)

\* any complex128 with an Inf or NaN component
NonFinite == [re |-> 0, im |-> 0, fin |-> FALSE]

CAdd(a, b) ==
    IF a.fin /\ b.fin THEN Cx(FAdd(a.re, b.re), FAdd(a.im, b.im)) ELSE NonFinite

\* z * (c + di) for a complex z and integers c, d
CMulInt(z, c, d) ==
    IF z.fin THEN Cx(Rnd(z.re * c - z.im * d), Rnd(z.re * d + z.im * c))
    ELSE NonFinite

\* z / (c + di): Go's complex division yields Inf/NaN components for c + di = 0
CDivInt(z, c, d) ==
    IF ~z.fin \/ (c = 0 /\ d = 0) THEN NonFinite
    ELSE Cx(FDiv(z.re * c + z.im * d, c * c + d * d),
            FDiv(z.im * c - z.re * d, c * c + d * d))

\* 0.5 * z
CHalf(z) == IF z.fin THEN Cx(FDiv(z.re, 2), FDiv(z.im, 2)) ELSE NonFinite

\* ------------------------------------------------------------ Term Evaluator
\* e^(-4i ln x) in thousandths, the rotation of x^y for imag(y) = -4
RotTable ==
    << <<1000, 0>>, <<-933, -361>>, <<-313, 950>>, <<740, 673>>,
       <<988, -154>>, <<634, -773>>, <<70, -998>>, <<-447, -894>> >>

Rot(x, yi) == IF yi = 0 THEN <<1000, 0>> ELSE RotTable[x]

\* cmplx.Pow(complex(float64(x), 0), y) for an integer x >= 0 and y = yr + yi*i,
\* in 1/60 units.  x = 0 follows the library's special cases.
Pow(x, y) ==
    IF x = 0
    THEN IF y = <<0, 0>> THEN Cx(60, 0)
         ELSE IF y[1] > 0 THEN Zero ELSE NonFinite
    ELSE LET rot == Rot(x, y[2])
             num == IF y[1] >= 0 THEN 60 * (x ^ y[1]) ELSE 60
             den == IF y[1] >= 0 THEN 1000 ELSE 1000 * (x ^ (-y[1]))
         IN  Cx(Rnd(RoundDiv(num * rot[1], den)), Rnd(RoundDiv(num * rot[2], den)))

Neg(s) == <<-s[1], -s[2]>>

\* the term k^(-s)
Term(k, s) == Pow(k, Neg(s))

\* int(cmplx.Abs(s))
IntAbs(s) == ISqrt(s[1] * s[1] + s[2] * s[2])

\* ------------------------------------------------------------------- state
VARIABLES
    s,              \* the exponent, <<real part, imaginary part>>
    maxNFlag,       \* the value given to the -maxN flag
    MinN,           \* package variable MinN
    MaxN,           \* package variable MaxN
    ChunkSize,      \* package variable ChunkSize
    pc,             \* position of main / calculateSpiralPartialSums
    N,              \* local N of calculateSpiralPartialSums
    numChunks,      \* local numChunks
    i,              \* loop variable of the launch loop, then of the chain loop
    partialSums,    \* []complex128, one slot per chunk
    allChunkLinks,  \* [][]complex128, one slot per chunk
    wg,             \* the sync.WaitGroup counter
    worker,         \* the chunk goroutines: idx -> [st, ed, at, sumVal, linkVals]
    runningSum,     \* local runningSum
    chainedLinks,   \* local chainedLinks
    totalSum,       \* local totalSum
    linkTerm,       \* history: the term index behind each element of allChunkLinks
    chainedTerm,    \* history: the term index behind each element of chainedLinks
    outOfOrder,     \* history: a goroutine finished before one of a lower chunk index
    writers         \* history: the goroutines that wrote each slot

engineVars ==
    <<s, maxNFlag, MinN, MaxN, ChunkSize, pc, N, numChunks, i, partialSums,
      allChunkLinks, wg, worker, runningSum, chainedLinks, totalSum, linkTerm,
      chainedTerm, outOfOrder, writers>>

\* ------------------------------------------------------ downsampler state
VARIABLES
    links,          \* the trajectory handed to the downsampler
    outputSize,     \* parameter outputSize
    aggressiveness, \* parameter aggressiveness, in halves
    numWorkers,     \* runtime.NumCPU()
    nanInt,         \* what int(NaN) yields on the platform
    dpc,            \* position of the downsampling call
    walkI,          \* loop variable i of the serial walk
    currentGroup,   \* currentGroup of the serial walk
    downsampled,    \* downsampled of the serial walk
    w,              \* loop variable w of the spawn loop
    dwg,            \* the sync.WaitGroup counter of downsampleComplex
    chunkWorker,    \* the chunk goroutines: w -> [at, start, end]
    results,        \* the buffered channel results
    closed,         \* whether results has been closed
    collected,      \* collected, one slot per worker
    mergeI,         \* loop variable i of the merge loop
    finalPoints,    \* finalPoints of the merge
    returned,       \* the slice the call returned
    interpolated,   \* history: how many points of the output were interpolated
    finalOwner,     \* history: the worker behind each element of finalPoints
    arrivedOutOfOrder, \* history: a result arrived before one of a lower worker index
    entry,          \* history: the function that was called, "serial" or "parallel"
    origin,         \* history: <<first input index of the group, s>> behind each output point,
                    \* s = 0 for the group's mean and s >= 1 for the s-th point after it
    counts,         \* history: the count of each group, in the order of the output
    received        \* history: how many results main has received from the channel

dsVars ==
    <<links, outputSize, aggressiveness, numWorkers, nanInt, dpc, walkI,
      currentGroup, downsampled, w, dwg, chunkWorker, results, closed, collected,
      mergeI, finalPoints, returned, interpolated, finalOwner, arrivedOutOfOrder,
      entry, origin, counts, received>>

\* ------------------------------------------------- group averaging state
VARIABLES
    points,         \* parameter points of downsample
    groupSize,      \* parameter groupSize of downsample
    outputCount,    \* outputCount of downsample
    groupI,         \* loop variable i of downsample
    groupResult,    \* result of downsample
    gpc             \* position of the call of downsample

groupVars == <<points, groupSize, outputCount, groupI, groupResult, gpc>>

\* ------------------------------------------------- Riemann-Siegel state
VARIABLES
    t,              \* imag(s), the argument of reimannSiegelWithLinks
    v,              \* v = floor(sqrt(t / 2 pi))
    spawnK,         \* loop variable k of the loop that starts the term goroutines
    termSent,       \* the term goroutines: k -> whether it has sent its term
    termCh,         \* the buffered channel termCh
    collectI,       \* loop variable i of the collecting loop
    terms,          \* terms, filled by index (0 until written)
    rsLinks,        \* the links reimannSiegelWithLinks returns
    total,          \* the total reimannSiegelWithLinks returns
    rpc,            \* position of the call
    termOutOfOrder  \* history: a term arrived before one of a lower index

rsVars ==
    <<t, v, spawnK, termSent, termCh, collectI, terms, rsLinks, total, rpc,
      termOutOfOrder>>

\* ------------------------------------------------------- NATS client state
VARIABLES
    reqN,           \* N of the client
    reqChunkSize,   \* chunkSize of the client
    reqStart,       \* loop variable start of the publishing loop
    published,      \* the requests published so far, [Start, End]
    cpc             \* position of the client

clientVars == <<reqN, reqChunkSize, reqStart, published, cpc>>

\* ------------------------------------- channel-based Euler-Maclaurin state
VARIABLES
    emS,            \* the exponent s handed to eulerMaclaurin(WithLinks)
    emWithLinks,    \* TRUE for eulerMaclaurinWithLinks, FALSE for eulerMaclaurin
    emMinN,         \* constant MinN
    emChunkSize,    \* constant ChunkSize
    emN,            \* local N
    emStart,        \* loop variable start of the launch loop
    emWg,           \* the sync.WaitGroup counter
    emWorker,       \* the goroutines in launch order: [start, end, at]
    emResults,      \* the buffered channel results
    emLinksCh,      \* the buffered channel links
    emClosed,       \* whether the channels have been closed
    emTotal,        \* local totalSum
    emAllLinks,     \* local allLinks
    emPc,           \* position of the calling goroutine
    emSumFrom,      \* history: the goroutine behind each partial sum received
    emListFrom      \* history: the goroutine behind each link list received

\* ------------------------------------------- NATS worker and reducer state
VARIABLES
    handled,        \* the published requests a worker has answered, by index
    reduceQ,        \* messages on the reduce subject, not yet delivered to the reducer
    rdPc,           \* position of the reducer's main
    rdWg,           \* the reducer's sync.WaitGroup counter
    finalSum,       \* the reducer's finalSum
    rdCallback,     \* position of the subscription callback
    decodedSums,    \* history: the partial sums decoded, in the order of arrival
    finalPublished  \* the messages published on the final subject

natsVars ==
    <<handled, reduceQ, rdPc, rdWg, finalSum, rdCallback, decodedSums, finalPublished>>

emVars ==
    <<emS, emWithLinks, emMinN, emChunkSize, emN, emStart, emWg, emWorker,
      emResults, emLinksCh, emClosed, emTotal, emAllLinks, emPc, emSumFrom,
      emListFrom>>

\* exponents explored: s = 1 (the pole), 0, -2, 2, -1+4i, -3+4i
SValues == { <<1, 0>>, <<0, 0>>, <<-2, 0>>, <<2, 0>>, <<-1, 4>>, <<-3, 4>> }

\* MinN is 100 in the program; the model scales it down
MinNValues == {2, 3}

\* ---------------------------------------------- computePartialSumWithLinks
\* the loop of computePartialSumWithLinks from index k on
RECURSIVE PartialLoop(_, _, _, _, _)
PartialLoop(k, end, sx, partialSum, linkList) ==
    IF k < end
    THEN LET next == CAdd(partialSum, Term(k, sx))
         IN  PartialLoop(k + 1, end, sx, next, Append(linkList, next))
    ELSE [sum |-> partialSum, links |-> linkList]

computePartialSumWithLinks(start, end, sx) ==
    PartialLoop(start, end, sx, Zero, <<>>)

\* ------------------------------------------ calculateSingleThreadedPartialSums
\* links[0] = 0 and links[k] = the sum of the terms 1..k, for k < numLinks;
\* the Go slice index k is the sequence index k + 1
RECURSIVE SingleLoop(_, _, _, _, _)
SingleLoop(k, numLinks, sx, partialSum, pts) ==
    IF k < numLinks
    THEN LET next == CAdd(partialSum, Term(k, sx))
         IN  SingleLoop(k + 1, numLinks, sx, next, [pts EXCEPT ![k + 1] = next])
    ELSE pts

calculateSingleThreadedPartialSums(sx, numLinks) ==
    SingleLoop(1, numLinks, sx, Zero, [k \in 1..numLinks |-> Zero])

\* --------------------------------------------------- calculateSpiralPartialSums
Clamp(n, lo, hi) == IF n < lo THEN lo ELSE IF n > hi THEN hi ELSE n

NumChunks(n, c) == GoDiv(n + c - 1, c)

ChunkStart(idx, c) == idx * c + 1

\* a chunk end that is not clamped to N
UnclampedEnd(idx, c, n) == ChunkStart(idx, c) + c

ChunkEnd(idx, c, n) == IF ChunkStart(idx, c) + c > n THEN n ELSE ChunkStart(idx, c) + c

\* the slot a goroutine would write if it read the loop variable of the
\* launch loop instead of its argument
SlotOfLoopVariable(idx) == i

\* one slot shared by all the goroutines
SharedSlot(idx) == 0

\* the slot a goroutine writes: its own argument idx
WorkerSlot(idx) == idx

\* the Euler-Maclaurin correction term1 + term2
Term1(n, sx) == CDivInt(Pow(n, <<1 - sx[1], -sx[2]>>), sx[1] - 1, sx[2])

Term2(n, sx) == CHalf(Pow(n, Neg(sx)))

Correction(n, sx) == CAdd(Term1(n, sx), Term2(n, sx))

EngineInit ==
    /\ s \in SValues
    /\ maxNFlag \in 0..MaxTerms
    /\ MinN \in MinNValues
    /\ MaxN = MaxTerms
    /\ ChunkSize \in 1..MaxChunk
    /\ pc = "main"
    /\ N = 0
    /\ numChunks = 0
    /\ i = 0
    /\ partialSums = <<>>
    /\ allChunkLinks = <<>>
    /\ wg = 0
    /\ worker = <<>>
    /\ runningSum = Zero
    /\ chainedLinks = <<>>
    /\ totalSum = Zero
    /\ linkTerm = <<>>
    /\ chainedTerm = <<>>
    /\ outOfOrder = FALSE
    /\ writers = <<>>

\* main: MaxN = *maxN
SetMaxN ==
    /\ pc = "main"
    /\ MaxN' = maxNFlag
    /\ pc' = "clamp"
    /\ UNCHANGED <<writers, s, maxNFlag, MinN, ChunkSize, N, numChunks, i, partialSums,
                   allChunkLinks, wg, worker, runningSum, chainedLinks, totalSum,
                   linkTerm, chainedTerm, outOfOrder>>
    /\ UNCHANGED <<dsVars, groupVars, rsVars, clientVars, emVars, natsVars>>

\* N is clamped, the slots are allocated, wg.Add(numChunks)
Prepare ==
    /\ pc = "clamp"
    /\ LET n  == Clamp(IntAbs(s), MinN, MaxN)
           nc == NumChunks(n, ChunkSize)
       IN  /\ N' = n
           /\ numChunks' = nc
           /\ partialSums' = [c \in 0..nc - 1 |-> Zero]
           /\ allChunkLinks' = [c \in 0..nc - 1 |-> <<>>]
           /\ linkTerm' = [c \in 0..nc - 1 |-> <<>>]
           /\ worker' = [c \in 0..nc - 1 |-> [at |-> "none", st |-> 0, ed |-> 0]]
           /\ wg' = nc
           /\ writers' = [c \in 0..nc - 1 |-> {}]
    /\ i' = 0
    /\ pc' = "launch"
    /\ UNCHANGED <<s, maxNFlag, MinN, MaxN, ChunkSize, runningSum, chainedLinks,
                   totalSum, chainedTerm, outOfOrder>>
    /\ UNCHANGED <<dsVars, groupVars, rsVars, clientVars, emVars, natsVars>>

\* one iteration of the launch loop: go func(idx, st, ed)
Launch ==
    /\ pc = "launch"
    /\ i < numChunks
    /\ worker' = [worker EXCEPT ![i] = [at |-> "ready",
                                        st |-> ChunkStart(i, ChunkSize),
                                        ed |-> ChunkEnd(i, ChunkSize, N)]]
    /\ i' = i + 1
    /\ UNCHANGED <<writers, s, maxNFlag, MinN, MaxN, ChunkSize, pc, N, numChunks, partialSums,
                   allChunkLinks, wg, runningSum, chainedLinks, totalSum, linkTerm,
                   chainedTerm, outOfOrder>>
    /\ UNCHANGED <<dsVars, groupVars, rsVars, clientVars, emVars, natsVars>>

\* the launch loop ends; main reaches wg.Wait()
LaunchEnd ==
    /\ pc = "launch"
    /\ i >= numChunks
    /\ pc' = "wait"
    /\ UNCHANGED <<writers, s, maxNFlag, MinN, MaxN, ChunkSize, N, numChunks, i, partialSums,
                   allChunkLinks, wg, worker, runningSum, chainedLinks, totalSum,
                   linkTerm, chainedTerm, outOfOrder>>
    /\ UNCHANGED <<dsVars, groupVars, rsVars, clientVars, emVars, natsVars>>

\* goroutine idx: computePartialSumWithLinks, then partialSums[idx] = sumVal
StoreSum(idx) ==
    /\ idx \in DOMAIN worker
    /\ worker[idx].at = "ready"
    /\ LET r == computePartialSumWithLinks(worker[idx].st, worker[idx].ed, s)
       IN  /\ partialSums' = [partialSums EXCEPT ![WorkerSlot(idx)] = r.sum]
           /\ worker' = [worker EXCEPT ![idx].at = "summed"]
           /\ writers' = [writers EXCEPT ![WorkerSlot(idx)] = @ \cup {idx}]
    /\ UNCHANGED <<s, maxNFlag, MinN, MaxN, ChunkSize, pc, N, numChunks, i,
                   allChunkLinks, wg, runningSum, chainedLinks, totalSum, linkTerm,
                   chainedTerm, outOfOrder>>
    /\ UNCHANGED <<dsVars, groupVars, rsVars, clientVars, emVars, natsVars>>

\* goroutine idx: allChunkLinks[idx] = linkVals
StoreLinks(idx) ==
    /\ idx \in DOMAIN worker
    /\ worker[idx].at = "summed"
    /\ LET r == computePartialSumWithLinks(worker[idx].st, worker[idx].ed, s)
       IN  /\ allChunkLinks' = [allChunkLinks EXCEPT ![WorkerSlot(idx)] = r.links]
           /\ linkTerm' = [linkTerm EXCEPT ![WorkerSlot(idx)] =
                             [j \in 1..Len(r.links) |-> worker[idx].st + j - 1]]
    /\ worker' = [worker EXCEPT ![idx].at = "stored"]
    /\ writers' = [writers EXCEPT ![WorkerSlot(idx)] = @ \cup {idx}]
    /\ UNCHANGED <<s, maxNFlag, MinN, MaxN, ChunkSize, pc, N, numChunks, i,
                   partialSums, wg, runningSum, chainedLinks, totalSum, chainedTerm,
                   outOfOrder>>
    /\ UNCHANGED <<dsVars, groupVars, rsVars, clientVars, emVars, natsVars>>

\* goroutine idx: the deferred wg.Done()
WorkerDone(idx) ==
    /\ idx \in DOMAIN worker
    /\ worker[idx].at = "stored"
    /\ wg' = wg - 1
    /\ worker' = [worker EXCEPT ![idx].at = "done"]
    /\ outOfOrder' = (outOfOrder \/ \E c \in DOMAIN worker : c < idx /\ worker[c].at # "done")
    /\ UNCHANGED <<writers, s, maxNFlag, MinN, MaxN, ChunkSize, pc, N, numChunks, i,
                   partialSums, allChunkLinks, runningSum, chainedLinks, totalSum,
                   linkTerm, chainedTerm>>
    /\ UNCHANGED <<dsVars, groupVars, rsVars, clientVars, emVars, natsVars>>

\* a Wait that does not wait
WaitReturnsAtOnce(counter) == TRUE

\* sync.WaitGroup.Wait blocks until the counter is zero
WaitReturns(counter) == counter = 0

\* wg.Wait() returns once the counter is zero
Wait ==
    /\ pc = "wait"
    /\ WaitReturns(wg)
    /\ pc' = "chain"
    /\ i' = 0
    /\ runningSum' = Zero
    /\ chainedLinks' = <<>>
    /\ UNCHANGED <<writers, s, maxNFlag, MinN, MaxN, ChunkSize, N, numChunks, partialSums,
                   allChunkLinks, wg, worker, totalSum, linkTerm, chainedTerm,
                   outOfOrder>>
    /\ UNCHANGED <<dsVars, groupVars, rsVars, clientVars, emVars, natsVars>>

\* the chunk the chain loop takes at iteration it
ChainOrder(it) == it

\* a link left at its chunk-local value
LocalLink(link, running) == link

\* chunkLinks[j] += runningSum
AdjustLink(link, running) == CAdd(link, running)

\* one iteration of the chain loop
Chain ==
    /\ pc = "chain"
    /\ i < numChunks
    /\ LET c        == ChainOrder(i)
           adjusted == [j \in 1..Len(allChunkLinks[c]) |->
                           AdjustLink(allChunkLinks[c][j], runningSum)]
       IN  /\ allChunkLinks' = [allChunkLinks EXCEPT ![c] = adjusted]
           /\ runningSum' = CAdd(runningSum, partialSums[c])
           /\ chainedLinks' = chainedLinks \o adjusted
           /\ chainedTerm' = chainedTerm \o linkTerm[c]
    /\ i' = i + 1
    /\ UNCHANGED <<writers, s, maxNFlag, MinN, MaxN, ChunkSize, pc, N, numChunks, partialSums,
                   wg, worker, totalSum, linkTerm, outOfOrder>>
    /\ UNCHANGED <<dsVars, groupVars, rsVars, clientVars, emVars, natsVars>>

\* the chain loop ends: totalSum = runningSum
ChainEnd ==
    /\ pc = "chain"
    /\ i >= numChunks
    /\ totalSum' = runningSum
    /\ pc' = "correct"
    /\ UNCHANGED <<writers, s, maxNFlag, MinN, MaxN, ChunkSize, N, numChunks, i, partialSums,
                   allChunkLinks, wg, worker, runningSum, chainedLinks, linkTerm,
                   chainedTerm, outOfOrder>>
    /\ UNCHANGED <<dsVars, groupVars, rsVars, clientVars, emVars, natsVars>>

\* the correction added to every link
CorrectEveryLink(pts, corr) == [j \in 1..Len(pts) |-> CAdd(pts[j], corr)]

\* the links the correction is added to: the final link only
CorrectedLinks(pts, corr) ==
    IF Len(pts) > 0
    THEN [pts EXCEPT ![Len(pts)] = CAdd(pts[Len(pts)], corr)]
    ELSE pts

\* the Euler-Maclaurin correction, then return
Correct ==
    /\ pc = "correct"
    /\ totalSum' = CAdd(totalSum, Correction(N, s))
    /\ chainedLinks' = CorrectedLinks(chainedLinks, Correction(N, s))
    /\ pc' = "done"
    /\ UNCHANGED <<writers, s, maxNFlag, MinN, MaxN, ChunkSize, N, numChunks, i, partialSums,
                   allChunkLinks, wg, worker, runningSum, linkTerm, chainedTerm,
                   outOfOrder>>
    /\ UNCHANGED <<dsVars, groupVars, rsVars, clientVars, emVars, natsVars>>

\* =================================================== pixel-space downsampler
\* A trajectory point handed to the downsampler is <<x, y>>, its coordinates
\* counted exactly in units of 0.0001.  aggressiveness is counted in halves
\* (8 stands for 4.0), which keeps 5^a, 2.5^a and 2^a square roots of integers.

\* the view bounds of a non-empty trajectory
RECURSIVE MinOf(_, _, _)
MinOf(pts, c, j) ==
    IF j > Len(pts) THEN pts[1][c]
    ELSE Min(pts[j][c], MinOf(pts, c, j + 1))

RECURSIVE MaxOf(_, _, _)
MaxOf(pts, c, j) ==
    IF j > Len(pts) THEN pts[1][c]
    ELSE Max(pts[j][c], MaxOf(pts, c, j + 1))

ViewBounds(pts) ==
    [minX |-> MinOf(pts, 1, 1), maxX |-> MaxOf(pts, 1, 1),
     minY |-> MinOf(pts, 2, 1), maxY |-> MaxOf(pts, 2, 1)]

MaxRange(b) == Max(b.maxX - b.minX, b.maxY - b.minY)

\* relativeSpread * 10000, for baseRange = max(0.01, maxRange): a float64
\* divided by itself is exactly 1
RelativeSpread(b) ==
    IF MaxRange(b) >= 100 THEN 10000 ELSE (MaxRange(b) * 10000) \div 100

\* relativeSpread <= maxRelativeSpread, for maxRelativeSpread = 0.0001 * 5^a up
\* to a = 3.5 and 0.03 + 0.02 * t above, t = (a - 3.5) / 0.5
RelativelyClose(b, a2) ==
    IF a2 > 7 THEN RelativeSpread(b) <= 300 + 200 * (a2 - 7)
    ELSE IF a2 > 0 THEN RelativeSpread(b) * RelativeSpread(b) <= 5 ^ a2
    ELSE RelativeSpread(b) <= 1

\* a threshold that keeps only points of the very same bin together
SameBinOnly(a2) == 0

\* pixelSpreadThreshold
PixelSpreadThreshold(a2) == IF a2 > 0 THEN 1 + a2 ELSE 1

\* int(math.Round(normalized * outputSize)) along one axis; a zero extent makes
\* the normalized value NaN, whose conversion to int is platform-dependent (nan)
PixelAxis(coord, lo, hi, size, nan) ==
    IF hi = lo THEN nan ELSE RoundDiv((coord - lo) * size, hi - lo)

pixelForLink(link, env) ==
    << PixelAxis(link[1], env.b.minX, env.b.maxX, env.outputSize, env.nan),
       PixelAxis(link[2], env.b.minY, env.b.maxY, env.outputSize, env.nan) >>

\* pixelGap > interpolationThreshold, on the squares: interpolationThreshold is
\* 1.1 * 2.5^a up to a = 3.5 and 55 + 20 * t above
GapExceeds(d2, a2) ==
    IF a2 > 7 THEN d2 > (55 + 20 * (a2 - 7)) * (55 + 20 * (a2 - 7))
    ELSE d2 > (121 * (5 ^ a2)) \div (100 * (2 ^ a2))

\* a step count that ignores the aggressiveness
StepsOfGapAlone(d2, a2) == ISqrt(d2)

\* steps = int(pixelGap / 2^min(a, 3.5)), scaled by 1 - 0.5 * t above a = 3.5
Steps(d2, a2) ==
    LET base == ISqrt(d2 \div (2 ^ Min(a2, 7)))
    IN  IF a2 > 7 THEN GoDiv(base * (2 - (a2 - 7)), 2) ELSE base

\* the points interpolated between from and to: t = s / (steps + 1), s = 1..steps
Interpolate(from, to, steps) ==
    [k \in 1..steps |->
        << RoundDiv(from[1] * (steps + 1 - k) + to[1] * k, steps + 1),
           RoundDiv(from[2] * (steps + 1 - k) + to[2] * k, steps + 1) >>]

\* an interpolation loop that runs over s = 0..steps+1 and so repeats both ends
InclusiveGapPoints(d2, a2, from, to) ==
    IF GapExceeds(d2, a2) /\ Steps(d2, a2) > 0
    THEN <<from>> \o Interpolate(from, to, Steps(d2, a2)) \o <<to>>
    ELSE <<>>

\* the points to insert for a pixel gap of squared length d2
GapPoints(d2, a2, from, to) ==
    IF GapExceeds(d2, a2) /\ Steps(d2, a2) > 0
    THEN Interpolate(from, to, Steps(d2, a2))
    ELSE <<>>

NewGroup(link, px) ==
    [sum |-> link, count |-> 1, pixelX |-> px[1], pixelY |-> px[2], lastLink |-> link]

flushGroup(g) == << RoundDiv(g.sum[1], g.count), RoundDiv(g.sum[2], g.count) >>

\* the test that keeps a point in the current group
SameGroup(g, px, a2) ==
    \/ px[1] = g.pixelX /\ px[2] = g.pixelY
    \/ /\ Abs(px[1] - g.pixelX) <= PixelSpreadThreshold(a2)
       /\ Abs(px[2] - g.pixelY) <= PixelSpreadThreshold(a2)

\* a flush that appends the interpolated points ahead of the mean
GapBeforeMean(mean, gap) == gap \o <<mean>>

\* downsampled = append(downsampled, avg), then the interpolated points
FlushOutput(mean, gap) == <<mean>> \o gap

\* the origin of the s-th point after the mean of the group that starts at
\* input index first
After(first, count) == [k \in 1..count |-> <<first, k>>]

\* an output slice that shares the backing array of the input
\* (links[:0]): what is appended to it overwrites the input from the front
AppendInPlace(input, out) ==
    [k \in 1..Len(input) |-> IF k <= Len(out) THEN out[k] ELSE input[k]]

\* the input after an append to an output slice: downsampled, chunkPoints
\* and finalPoints are declared with var, so each has a backing array of
\* its own and the input keeps its elements
InputAfterAppend(input, out) == input

\* a point that joins the group without being counted
CountUnchanged(count) == count

\* currentGroup.count++
CountAfter(count) == count + 1

\* one iteration of the walk: st = [group, out, interp, n, src, cnt], interp
\* counting the interpolated points of out, n the index of link in the input
\* src the origin of each point of out and cnt the counts of the flushed groups
WalkStep(st, link, env) ==
    LET px == pixelForLink(link, env)
        g  == st.group
    IN  IF SameGroup(g, px, env.a2)
        THEN [st EXCEPT !.group = [g EXCEPT !.sum = <<g.sum[1] + link[1],
                                                      g.sum[2] + link[2]>>,
                                             !.count = CountAfter(g.count),
                                             !.lastLink = link],
                        !.n = st.n + 1]
        ELSE LET dx  == px[1] - g.pixelX
                 dy  == px[2] - g.pixelY
                 gap == GapPoints(dx * dx + dy * dy, env.a2, g.lastLink, link)
             IN  [group  |-> NewGroup(link, px),
                  out    |-> st.out \o FlushOutput(flushGroup(g), gap),
                  interp |-> st.interp + Len(gap),
                  n      |-> st.n + 1,
                  src    |-> st.src \o FlushOutput(<<st.n - g.count, 0>>,
                                                   After(st.n - g.count, Len(gap))),
                  cnt    |-> Append(st.cnt, g.count)]

\* the walk over pts[from..to] (1-based, inclusive)
RECURSIVE Walk(_, _, _, _, _)
Walk(st, pts, from, to, env) ==
    IF from > to THEN st
    ELSE Walk(WalkStep(st, pts[from], env), pts, from + 1, to, env)

\* the first point instead of the mean
FirstPoint(pts) == pts[1]

\* the arithmetic mean of all the points, as the short-circuit computes it
RECURSIVE SumOf(_, _, _)
SumOf(pts, c, j) == IF j > Len(pts) THEN 0 ELSE pts[j][c] + SumOf(pts, c, j + 1)

\* a mean taken over one point too many
AverageOverNext(pts) ==
    << RoundDiv(SumOf(pts, 1, 1), Len(pts) + 1), RoundDiv(SumOf(pts, 2, 1), Len(pts) + 1) >>

AverageAll(pts) ==
    << RoundDiv(SumOf(pts, 1, 1), Len(pts)), RoundDiv(SumOf(pts, 2, 1), Len(pts)) >>

\* what a worker of downsampleComplex makes of pts[start..end) (0-based)
ChunkResult(wk, pts, start, end, env) ==
    IF start >= end
    THEN [index |-> wk, points |-> <<>>, lastPoint |-> <<0, 0>>,
          lastPx |-> 0, lastPy |-> 0, interp |-> 0, src |-> <<>>,
          cnt |-> <<>>]
    ELSE LET first == [group  |-> NewGroup(pts[start + 1],
                                           pixelForLink(pts[start + 1], env)),
                       out    |-> <<>>,
                       interp |-> 0,
                       n      |-> start + 1,
                       src    |-> <<>>,
                       cnt    |-> <<>>]
             st    == Walk(first, pts, start + 2, end, env)
         IN  [index |-> wk,
              points |-> Append(st.out, flushGroup(st.group)),
              lastPoint |-> st.group.lastLink,
              lastPx |-> st.group.pixelX,
              lastPy |-> st.group.pixelY,
              interp |-> st.interp,
              src |-> Append(st.src, <<st.n - st.group.count, 0>>),
              cnt |-> Append(st.cnt, st.group.count)]

\* what downsampleComplexSerial returns for pts under env
downsampleComplexSerial(pts, env) ==
    IF Len(pts) = 0 THEN pts
    ELSE IF RelativelyClose(env.b, env.a2) THEN <<AverageAll(pts)>>
    ELSE LET st == Walk([group  |-> NewGroup(pts[1], pixelForLink(pts[1], env)),
                         out    |-> <<>>,
                         interp |-> 0,
                         n      |-> 1,
                         src    |-> <<>>,
                         cnt    |-> <<>>], pts, 2, Len(pts), env)
         IN  Append(st.out, flushGroup(st.group))

\* longest trajectory explored
MaxLinks == 4
\* largest runtime.NumCPU() explored
MaxCPU == 3
\* downsampleComplex works in parallel from this many links on (10000 in the
\* program; the model scales it down)
ParallelThreshold == 3

\* the points trajectories are drawn from, in units of 0.0001:
\* (0,0), (0.0002,0) and (0.03,0.03)
PointValues == { <<0, 0>>, <<2, 0>>, <<300, 300>> }

\* output resolutions explored (the -size flag takes any integer)
OutputSizes == {0, 10}

\* aggressiveness values explored, in halves: 0.0, 4.0 and the
\* out-of-range 5.0 (the -aggressive flag takes any float)
AggressivenessValues == {0, 8, 10}

\* int(NaN) is 0 on some platforms and the most negative integer on others
NaNInts == {0, -2147483647}

Trajectories == UNION { [1..n -> PointValues] : n \in 0..MaxLinks }

\* calls explored at their true scale, far below the 10000 links from which
\* downsampleComplex works in parallel
\* the call of TestDownsampleComplex_SamePixel: (1,1), (1.0001,1.0001),
\* (1.0002,1.0002) at resolution 2048 and aggressiveness 0.0
SamePixelCall ==
    [links |-> << <<10000, 10000>>, <<10001, 10001>>, <<10002, 10002>> >>,
     outputSize |-> 2048, aggressiveness |-> 0]

\* the call of TestDownsampleComplex_Interpolate: (1,1), (100,100) at
\* resolution 100 and aggressiveness 0.5
InterpolateCall ==
    [links |-> << <<10000, 10000>>, <<1000000, 1000000>> >>,
     outputSize |-> 100, aggressiveness |-> 1]

\* (0,0), (0.05,0.05), (0.08,0.1) at resolution 10 and aggressiveness 2.5
ThreePointCall ==
    [links |-> << <<0, 0>>, <<500, 500>>, <<800, 1000>> >>,
     outputSize |-> 10, aggressiveness |-> 5]

\* (1,1), (100,100) at resolution 100 and aggressiveness 4.0
ReducedStepsCall ==
    [links |-> << <<10000, 10000>>, <<1000000, 1000000>> >>,
     outputSize |-> 100, aggressiveness |-> 8]

TrueScaleCalls == { SamePixelCall, InterpolateCall, ThreePointCall, ReducedStepsCall }

AtTrueScale(pts) == \E call \in TrueScaleCalls : call.links = pts

\* a downsampleComplex that hands only the empty trajectory to the serial
\* version
OnlyEmptyBelowThreshold(pts) == Len(pts) = 0

\* len(links) < 10000
BelowThreshold(pts) == AtTrueScale(pts) \/ Len(pts) < ParallelThreshold

NoGroup == [sum |-> <<0, 0>>, count |-> 0, pixelX |-> 0, pixelY |-> 0, lastLink |-> <<0, 0>>]

Env == [b |-> ViewBounds(links), outputSize |-> outputSize, a2 |-> aggressiveness,
        nan |-> nanInt]

DSIdle ==
    /\ links = <<>>
    /\ outputSize = 0
    /\ aggressiveness = 0
    /\ numWorkers = 1
    /\ nanInt = 0
    /\ dpc = "idle"
    /\ walkI = 0
    /\ currentGroup = NoGroup
    /\ downsampled = <<>>
    /\ w = 0
    /\ dwg = 0
    /\ chunkWorker = <<>>
    /\ results = <<>>
    /\ closed = FALSE
    /\ collected = <<>>
    /\ mergeI = 0
    /\ finalPoints = <<>>
    /\ returned = <<>>
    /\ interpolated = 0
    /\ finalOwner = <<>>
    /\ arrivedOutOfOrder = FALSE
    /\ entry = dpc
    /\ origin = <<>>
    /\ counts = <<>>
    /\ received = 0

\* a call of downsampleComplexSerial or of downsampleComplex
DSInit ==
    /\ \/ /\ links \in Trajectories
          /\ outputSize \in OutputSizes
          /\ aggressiveness \in AggressivenessValues
       \/ \E call \in TrueScaleCalls :
             /\ links = call.links
             /\ outputSize = call.outputSize
             /\ aggressiveness = call.aggressiveness
    /\ dpc \in {"serial", "parallel"}
    /\ numWorkers \in (IF dpc = "parallel" /\ ~BelowThreshold(links)
                       THEN 1..MaxCPU ELSE {1})
    /\ nanInt \in (IF Len(links) > 0 /\ (ViewBounds(links).minX = ViewBounds(links).maxX
                                        \/ ViewBounds(links).minY = ViewBounds(links).maxY)
                   THEN NaNInts ELSE {0})
    /\ walkI = 0
    /\ currentGroup = NoGroup
    /\ downsampled = <<>>
    /\ w = 0
    /\ dwg = 0
    /\ chunkWorker = <<>>
    /\ results = <<>>
    /\ closed = FALSE
    /\ collected = <<>>
    /\ mergeI = 0
    /\ finalPoints = <<>>
    /\ returned = <<>>
    /\ interpolated = 0
    /\ finalOwner = <<>>
    /\ arrivedOutOfOrder = FALSE
    /\ entry = dpc
    /\ origin = <<>>
    /\ counts = <<>>
    /\ received = 0

\* an empty trajectory that reaches the averaging and comes back as one point
AverageOfNone(pts) == << <<0, 0>> >>

\* if len(links) == 0 { return links }
EmptyResult(pts) == pts

\* downsampleComplexSerial up to the first group: the empty input, the
\* short-circuit, or the start of the walk
SerialEnter ==
    /\ dpc = "serial"
    /\ IF Len(links) = 0
       THEN /\ returned' = EmptyResult(links)
            /\ dpc' = "return"
            /\ UNCHANGED <<currentGroup, walkI>>
       ELSE IF RelativelyClose(ViewBounds(links), aggressiveness)
       THEN /\ returned' = <<AverageAll(links)>>
            /\ dpc' = "return"
            /\ UNCHANGED <<currentGroup, walkI>>
       ELSE /\ currentGroup' = NewGroup(links[1], pixelForLink(links[1], Env))
            /\ walkI' = 1
            /\ dpc' = "walk"
            /\ UNCHANGED returned
    /\ UNCHANGED <<received, counts, origin, entry, links, outputSize, aggressiveness, numWorkers, nanInt, downsampled,
                   w, dwg, chunkWorker, results, closed, collected, mergeI,
                   finalPoints, interpolated, finalOwner, arrivedOutOfOrder>>
    /\ UNCHANGED <<engineVars, groupVars, rsVars, clientVars, emVars, natsVars>>

\* one iteration of the serial walk
SerialStep ==
    /\ dpc = "walk"
    /\ walkI < Len(links)
    /\ LET st == WalkStep([group |-> currentGroup, out |-> downsampled,
                           interp |-> interpolated, n |-> walkI, src |-> origin,
                           cnt |-> counts],
                          links[walkI + 1], Env)
       IN  /\ currentGroup' = st.group
           /\ downsampled' = st.out
           /\ links' = InputAfterAppend(links, st.out)
           /\ interpolated' = st.interp
           /\ origin' = st.src
           /\ counts' = st.cnt
    /\ walkI' = walkI + 1
    /\ UNCHANGED <<received, entry, outputSize, aggressiveness, numWorkers, nanInt, dpc, w, dwg,
                   chunkWorker, results, closed, collected, mergeI, finalPoints,
                   returned, finalOwner, arrivedOutOfOrder>>
    /\ UNCHANGED <<engineVars, groupVars, rsVars, clientVars, emVars, natsVars>>

\* the walk ends: the final group is flushed and downsampled is returned
SerialFlush ==
    /\ dpc = "walk"
    /\ walkI >= Len(links)
    /\ downsampled' = Append(downsampled, flushGroup(currentGroup))
    /\ returned' = downsampled'
    /\ links' = InputAfterAppend(links, downsampled')
    /\ origin' = Append(origin, <<walkI - currentGroup.count, 0>>)
    /\ counts' = Append(counts, currentGroup.count)
    /\ dpc' = "return"
    /\ UNCHANGED <<received, entry, outputSize, aggressiveness, numWorkers, nanInt, walkI,
                   currentGroup, w, dwg, chunkWorker, results, closed, collected,
                   mergeI, finalPoints, interpolated, finalOwner, arrivedOutOfOrder>>
    /\ UNCHANGED <<engineVars, groupVars, rsVars, clientVars, emVars, natsVars>>

\* chunkSize of downsampleComplex
DSChunkSize == GoDiv(Len(links) + numWorkers - 1, numWorkers)

\* a short-circuit test made on the bounds of the first chunk only
FirstChunkCollapses(pts, a2) ==
    RelativelyClose(ViewBounds(SubSeq(pts, 1, DSChunkSize)), a2)

\* the short-circuit test of downsampleComplex: on the bounds of all links
ParallelCollapses(pts, a2) == RelativelyClose(ViewBounds(pts), a2)

\* downsampleComplex up to the spawn loop: the delegation to the serial
\* version, the short-circuit, or the start of the parallel phase
ParallelEnter ==
    /\ dpc = "parallel"
    /\ IF BelowThreshold(links)
       THEN /\ dpc' = "serial"
            /\ UNCHANGED <<returned, collected, chunkWorker>>
       ELSE IF ParallelCollapses(links, aggressiveness)
       THEN /\ returned' = <<AverageAll(links)>>
            /\ dpc' = "return"
            /\ UNCHANGED <<collected, chunkWorker>>
       ELSE /\ dpc' = "spawn"
            /\ chunkWorker' = [c \in 0..numWorkers - 1 |->
                                 [at |-> "none", start |-> 0, end |-> 0]]
            /\ collected' = [c \in 0..numWorkers - 1 |->
                               [points |-> <<>>, lastPoint |-> <<0, 0>>,
                                lastPx |-> 0, lastPy |-> 0, interp |-> 0, from |-> c,
                                src |-> <<>>, cnt |-> <<>>]]
            /\ UNCHANGED returned
    /\ UNCHANGED <<received, counts, origin, entry, links, outputSize, aggressiveness, numWorkers, nanInt, walkI,
                   currentGroup, downsampled, w, dwg, results, closed, mergeI,
                   finalPoints, interpolated, finalOwner, arrivedOutOfOrder>>
    /\ UNCHANGED <<engineVars, groupVars, rsVars, clientVars, emVars, natsVars>>

\* a chunk end one link too far, so that neighbouring chunks overlap
OverlappingEnd(wk) == Min(wk * DSChunkSize + DSChunkSize + 1, Len(links))

\* end := start + chunkSize, clamped to len(links)
WorkerEnd(wk) == Min(wk * DSChunkSize + DSChunkSize, Len(links))

\* a chunk that starts on the last link of the chunk before it
StartOneEarlier(wk) == Max(wk * DSChunkSize - 1, 0)

\* start := w * chunkSize
WorkerStart(wk) == wk * DSChunkSize

\* one iteration of the spawn loop: wg.Add(1); go func(worker, start, end)
Spawn ==
    /\ dpc = "spawn"
    /\ w < numWorkers
    /\ dwg' = dwg + 1
    /\ chunkWorker' = [chunkWorker EXCEPT ![w] =
                          [at |-> "ready",
                           start |-> WorkerStart(w),
                           end |-> WorkerEnd(w)]]
    /\ w' = w + 1
    /\ UNCHANGED <<received, counts, origin, entry, links, outputSize, aggressiveness, numWorkers, nanInt, dpc, walkI,
                   currentGroup, downsampled, results, closed, collected, mergeI,
                   finalPoints, returned, interpolated, finalOwner, arrivedOutOfOrder>>
    /\ UNCHANGED <<engineVars, groupVars, rsVars, clientVars, emVars, natsVars>>

\* the spawn loop ends; the closing goroutine is started and main starts to
\* range over results
SpawnEnd ==
    /\ dpc = "spawn"
    /\ w >= numWorkers
    /\ dpc' = "collect"
    /\ UNCHANGED <<received, counts, origin, entry, links, outputSize, aggressiveness, numWorkers, nanInt, walkI,
                   currentGroup, downsampled, w, dwg, chunkWorker, results, closed,
                   collected, mergeI, finalPoints, returned, interpolated, finalOwner,
                   arrivedOutOfOrder>>
    /\ UNCHANGED <<engineVars, groupVars, rsVars, clientVars, emVars, natsVars>>

\* a channel that holds one result whatever the number of workers
SingleSlot(n) == 1

\* results := make(chan chunkResult, numWorkers)
ResultsCapacity(n) == n

\* worker c has been started and finds room on the channel
CanSend(c) ==
    /\ c \in DOMAIN chunkWorker
    /\ chunkWorker[c].at = "ready"
    /\ Len(results) < ResultsCapacity(numWorkers)

\* worker c: processes its chunk, sends its chunkResult (the channel holds
\* numWorkers results, so the send never blocks), then the deferred wg.Done()
ChunkWorker(c) ==
    /\ CanSend(c)
    /\ LET result == ChunkResult(c, links, chunkWorker[c].start, chunkWorker[c].end, Env)
       IN  /\ results' = Append(results, result)
           /\ links' = InputAfterAppend(links, result.points)
    /\ dwg' = dwg - 1
    /\ chunkWorker' = [chunkWorker EXCEPT ![c].at = "done"]
    /\ UNCHANGED <<received, counts, origin, entry, outputSize, aggressiveness, numWorkers, nanInt, dpc, walkI,
                   currentGroup, downsampled, w, closed, collected, mergeI,
                   finalPoints, returned, interpolated, finalOwner, arrivedOutOfOrder>>
    /\ UNCHANGED <<engineVars, groupVars, rsVars, clientVars, emVars, natsVars>>

\* the closing goroutine has been started and its wg.Wait() returns
CanClose ==
    /\ dpc = "collect"
    /\ ~closed
    /\ WaitReturns(dwg)

\* the closing goroutine: wg.Wait(); close(results)
CloseResults ==
    /\ CanClose
    /\ closed' = TRUE
    /\ UNCHANGED <<received, counts, origin, entry, links, outputSize, aggressiveness, numWorkers, nanInt, dpc, walkI,
                   currentGroup, downsampled, w, dwg, chunkWorker, results, collected,
                   mergeI, finalPoints, returned, interpolated, finalOwner, arrivedOutOfOrder>>
    /\ UNCHANGED <<engineVars, groupVars, rsVars, clientVars, emVars, natsVars>>

\* the slot a result would be stored in if results were kept in the order
\* they arrive: the number of results received before it
ArrivalSlot(result) ==
    Cardinality({c \in DOMAIN chunkWorker : chunkWorker[c].at = "done"}) - Len(results)

\* the slot of collected a received result is stored in
CollectSlot(result) == result.index

\* main receives one result: collected[result.index] = ...
Receive ==
    /\ dpc = "collect"
    /\ Len(results) > 0
    /\ LET result == Head(results)
       IN  /\ collected' = [collected EXCEPT ![CollectSlot(result)] =
                              [points |-> result.points, lastPoint |-> result.lastPoint,
                               lastPx |-> result.lastPx, lastPy |-> result.lastPy,
                               interp |-> result.interp, from |-> result.index,
                               src |-> result.src, cnt |-> result.cnt]]
           /\ arrivedOutOfOrder' = (arrivedOutOfOrder \/ \E c \in 0..numWorkers - 1 :
                                      c < result.index /\ chunkWorker[c].at = "ready")
    /\ results' = Tail(results)
    /\ received' = received + 1
    /\ UNCHANGED <<counts, origin, entry, links, outputSize, aggressiveness, numWorkers, nanInt, dpc, walkI,
                   currentGroup, downsampled, w, dwg, chunkWorker, closed, mergeI,
                   finalPoints, returned, interpolated, finalOwner>>
    /\ UNCHANGED <<engineVars, groupVars, rsVars, clientVars, emVars, natsVars>>

\* the range loop ends once results is closed and drained
CollectEnd ==
    /\ dpc = "collect"
    /\ Len(results) = 0
    /\ closed
    /\ dpc' = "merge"
    /\ mergeI' = 0
    /\ UNCHANGED <<received, counts, origin, entry, links, outputSize, aggressiveness, numWorkers, nanInt, walkI,
                   currentGroup, downsampled, w, dwg, chunkWorker, results, closed,
                   collected, finalPoints, returned, interpolated, finalOwner, arrivedOutOfOrder>>
    /\ UNCHANGED <<engineVars, groupVars, rsVars, clientVars, emVars, natsVars>>

\* the points interpolated between chunk c and chunk c + 1 of collected
BoundaryPoints(col, c, a2) ==
    IF c < Len(col) /\ Len(col[c + 1].points) > 0
    THEN LET dx == col[c + 1].lastPx - col[c].lastPx
             dy == col[c + 1].lastPy - col[c].lastPy
         IN  GapPoints(dx * dx + dy * dy, a2, col[c].lastPoint, col[c + 1].points[1])
    ELSE <<>>

\* one iteration of the merge loop
Merge ==
    /\ dpc = "merge"
    /\ mergeI < numWorkers
    /\ IF Len(collected[mergeI].points) = 0
       THEN UNCHANGED <<finalPoints, interpolated, finalOwner, origin, counts, links>>
       ELSE LET col == [k \in 1..numWorkers |-> collected[k - 1]]
                gap == BoundaryPoints(col, mergeI + 1, aggressiveness)
            IN  /\ finalPoints' = finalPoints \o collected[mergeI].points \o gap
                /\ links' = InputAfterAppend(links, finalPoints')
                /\ interpolated' = interpolated + collected[mergeI].interp + Len(gap)
                /\ finalOwner' = finalOwner \o
                       [k \in 1..Len(collected[mergeI].points) + Len(gap) |->
                           collected[mergeI].from]
                /\ origin' = origin \o collected[mergeI].src \o
                       After(collected[mergeI].src[Len(collected[mergeI].src)][1], Len(gap))
                /\ counts' = counts \o collected[mergeI].cnt
    /\ mergeI' = mergeI + 1
    /\ UNCHANGED <<received, entry, outputSize, aggressiveness, numWorkers, nanInt, dpc, walkI,
                   currentGroup, downsampled, w, dwg, chunkWorker, results, closed,
                   collected, returned, arrivedOutOfOrder>>
    /\ UNCHANGED <<engineVars, groupVars, rsVars, clientVars, emVars, natsVars>>

\* the merge loop ends: finalPoints is returned
MergeEnd ==
    /\ dpc = "merge"
    /\ mergeI >= numWorkers
    /\ returned' = finalPoints
    /\ dpc' = "return"
    /\ UNCHANGED <<received, counts, origin, entry, links, outputSize, aggressiveness, numWorkers, nanInt, walkI,
                   currentGroup, downsampled, w, dwg, chunkWorker, results, closed,
                   collected, mergeI, finalPoints, interpolated, finalOwner, arrivedOutOfOrder>>
    /\ UNCHANGED <<engineVars, groupVars, rsVars, clientVars, emVars, natsVars>>

\* the engine while a downsampling call is explored
EngineIdle ==
    /\ s = <<0, 0>>
    /\ maxNFlag = 0
    /\ MinN = 0
    /\ MaxN = 0
    /\ ChunkSize = 1
    /\ pc = "idle"
    /\ N = 0
    /\ numChunks = 0
    /\ i = 0
    /\ partialSums = <<>>
    /\ allChunkLinks = <<>>
    /\ wg = 0
    /\ worker = <<>>
    /\ runningSum = Zero
    /\ chainedLinks = <<>>
    /\ totalSum = Zero
    /\ linkTerm = <<>>
    /\ chainedTerm = <<>>
    /\ outOfOrder = FALSE
    /\ writers = <<>>

\* --------------------------------------------------------- group averaging
\* longest slice handed to downsample
MaxPoints == 5
\* largest groupSize explored
MaxGroup == 3

\* group sizes explored: groupSize is an int, zero and negative included
GroupSizes == -1..MaxGroup

PointSlices == UNION { [1..n -> PointValues] : n \in 0..MaxPoints }

GroupIdle ==
    /\ points = <<>>
    /\ groupSize = 1
    /\ outputCount = 0
    /\ groupI = 0
    /\ groupResult = <<>>
    /\ gpc = "idle"

\* a call of downsample
GroupInit ==
    /\ points \in PointSlices
    /\ groupSize \in GroupSizes
    /\ outputCount = 0
    /\ groupI = 0
    /\ groupResult = <<>>
    /\ gpc = "downsample"

\* groups that start one point after the other and so overlap
SlidingStart(idx, g) == idx

\* start := i * groupSize
GroupStart(idx, g) == idx * g

\* the inner loop: the sum of coordinate c of pts[j..end) (0-based)
RECURSIVE GroupSum(_, _, _, _)
GroupSum(pts, c, j, end) ==
    IF j >= end THEN 0 ELSE pts[j + 1][c] + GroupSum(pts, c, j + 1, end)

\* Point{X: sumX / float64(groupSize), Y: sumY / float64(groupSize)}
GroupMean(pts, start, g) ==
    << RoundDiv(GroupSum(pts, 1, start, start + g), g),
       RoundDiv(GroupSum(pts, 2, start, start + g), g) >>

\* n / groupSize and the allocation of result: the division panics on a zero
\* groupSize and make panics on a negative capacity
GroupEnter ==
    /\ gpc = "downsample"
    /\ IF groupSize = 0 \/ GoDiv(Len(points), groupSize) < 0
       THEN /\ gpc' = "panic"
            /\ UNCHANGED outputCount
       ELSE /\ outputCount' = GoDiv(Len(points), groupSize)
            /\ gpc' = "loop"
    /\ UNCHANGED <<points, groupSize, groupI, groupResult>>
    /\ UNCHANGED <<engineVars, dsVars, rsVars, clientVars, emVars, natsVars>>

\* one iteration of the outer loop: one group is averaged and appended
GroupStep ==
    /\ gpc = "loop"
    /\ groupI < outputCount
    /\ groupResult' = Append(groupResult, GroupMean(points, GroupStart(groupI, groupSize), groupSize))
    /\ groupI' = groupI + 1
    /\ UNCHANGED <<points, groupSize, outputCount, gpc>>
    /\ UNCHANGED <<engineVars, dsVars, rsVars, clientVars, emVars, natsVars>>

\* return result
GroupReturn ==
    /\ gpc = "loop"
    /\ groupI >= outputCount
    /\ gpc' = "return"
    /\ UNCHANGED <<points, groupSize, outputCount, groupI, groupResult>>
    /\ UNCHANGED <<engineVars, dsVars, rsVars, clientVars, emVars, natsVars>>

\* ------------------------------------------------------------ Riemann-Siegel
\* the imaginary parts explored (the -imag flag takes any float): a negative
\* one, zero, 3 (v = 0), 7 (v = 1), 26 (v = 2), 57 (v = 3), 101 (v = 4)
ImagParts == {-1, 0, 3, 7, 26, 57, 101}

\* int(math.Floor(math.Sqrt(t / (2 * math.Pi)))), with 2 pi = 6.283185
FloorSqrtOver2Pi(x) == ISqrt((x * 1000000) \div 6283185)

\* 1/sqrt(k+1) * cos(V - t*log(k+1)) in 1/60 units, k = 0..v-1, tabulated
TermTable(x) ==
    CASE x = 7   -> << -56 >>
      [] x = 26  -> << 21, 39 >>
      [] x = 57  -> << -49, 32, -32 >>
      [] x = 101 -> << 11, 37, -32, 28 >>
      [] OTHER   -> << >>

\* term of the goroutine started for k
SeriesTerm(x, k) == Rnd(TermTable(x)[k + 1])

\* the correction term b in 1/60 units, tabulated
CorrectionB(x) ==
    CASE x = 3   -> -31
      [] x = 7   -> 46
      [] x = 26  -> -35
      [] x = 57  -> 31
      [] x = 101 -> -27
      [] OTHER   -> 0

\* factor = cmplx.Exp(complex(0, -V)) in thousandths, tabulated
Factor(x) ==
    CASE x = 3   -> <<-989, 146>>
      [] x = 7   -> <<-932, -362>>
      [] x = 26  -> <<351, 936>>
      [] x = 57  -> <<-824, -567>>
      [] x = 101 -> <<176, -984>>
      [] OTHER   -> <<1000, 0>>

\* the real number x times factor
TimesFactor(x, f) == Cx(Rnd(RoundDiv(x * f[1], 1000)), Rnd(RoundDiv(x * f[2], 1000)))

\* the cumulative loop: links[k] = complex(2*cumulative, 0) for k in from..v-1
RECURSIVE CumulativeLinks(_, _, _, _)
CumulativeLinks(tm, k, cumulative, f) ==
    IF k >= Len(tm) THEN << >>
    ELSE LET c == FAdd(cumulative, tm[k + 1])
         IN  <<TimesFactor(2 * c, f)>> \o CumulativeLinks(tm, k + 1, c, f)

\* cumulative after the loop
RECURSIVE CumulativeSum(_, _, _)
CumulativeSum(tm, k, cumulative) ==
    IF k >= Len(tm) THEN cumulative
    ELSE CumulativeSum(tm, k + 1, FAdd(cumulative, tm[k + 1]))

\* the largest index of a term goroutine explored
MaxTermIndex == 3

RSIdle ==
    /\ t = 0
    /\ v = 0
    /\ spawnK = 0
    /\ termSent = << >>
    /\ termCh = << >>
    /\ collectI = 0
    /\ terms = << >>
    /\ rsLinks = << >>
    /\ total = Zero
    /\ rpc = "idle"
    /\ termOutOfOrder = FALSE

\* a call of reimannSiegelWithLinks
RSInit ==
    /\ t \in ImagParts
    /\ v = 0
    /\ spawnK = 0
    /\ termSent = << >>
    /\ termCh = << >>
    /\ collectI = 0
    /\ terms = << >>
    /\ rsLinks = << >>
    /\ total = Zero
    /\ rpc = "enter"
    /\ termOutOfOrder = FALSE

\* the check of t, v, and the correction terms
RSEnter ==
    /\ rpc = "enter"
    /\ IF t <= 0
       THEN /\ rpc' = "fatal"
            /\ UNCHANGED <<v, terms>>
       ELSE /\ v' = FloorSqrtOver2Pi(t)
            /\ terms' = [k \in 1..v' |-> 0]
            /\ rpc' = "spawn"
    /\ UNCHANGED <<t, spawnK, termSent, termCh, collectI, rsLinks, total, termOutOfOrder>>
    /\ UNCHANGED <<engineVars, dsVars, groupVars, clientVars, emVars, natsVars>>

\* one iteration of the loop that starts the term goroutines
RSSpawn ==
    /\ rpc = "spawn"
    /\ IF spawnK < v
       THEN /\ termSent' = Append(termSent, FALSE)
            /\ spawnK' = spawnK + 1
            /\ UNCHANGED rpc
       ELSE /\ rpc' = "collect"
            /\ UNCHANGED <<termSent, spawnK>>
    /\ UNCHANGED <<t, v, termCh, collectI, terms, rsLinks, total, termOutOfOrder>>
    /\ UNCHANGED <<engineVars, dsVars, groupVars, clientVars, emVars, natsVars>>

\* the goroutine of term k computes its term and sends termResult{k, term}
TermWorker(k) ==
    /\ k + 1 \in DOMAIN termSent
    /\ ~termSent[k + 1]
    /\ termCh' = Append(termCh, [index |-> k, value |-> SeriesTerm(t, k)])
    /\ termSent' = [termSent EXCEPT ![k + 1] = TRUE]
    /\ termOutOfOrder' = (termOutOfOrder \/ \E j \in 0..(k - 1) :
                             j + 1 \notin DOMAIN termSent \/ ~termSent[j + 1])
    /\ UNCHANGED <<t, v, spawnK, collectI, terms, rsLinks, total, rpc>>
    /\ UNCHANGED <<engineVars, dsVars, groupVars, clientVars, emVars, natsVars>>

\* the slot a term would be stored in if terms were kept in arrival order
ArrivalTermSlot(res, arrival) == arrival

\* terms[res.index] = res.value
TermSlot(res, arrival) == res.index

\* one iteration of the collecting loop: res := <-termCh
RSCollect ==
    /\ rpc = "collect"
    /\ collectI < v
    /\ Len(termCh) > 0
    /\ LET res == Head(termCh)
       IN  terms' = [terms EXCEPT ![TermSlot(res, collectI) + 1] = res.value]
    /\ termCh' = Tail(termCh)
    /\ collectI' = collectI + 1
    /\ UNCHANGED <<t, v, spawnK, termSent, rsLinks, total, rpc, termOutOfOrder>>
    /\ UNCHANGED <<engineVars, dsVars, groupVars, clientVars, emVars, natsVars>>

\* close(termCh), the cumulative sums, the total and the final link
RSFinish ==
    /\ rpc = "collect"
    /\ collectI >= v
    /\ total' = TimesFactor(FAdd(2 * CumulativeSum(terms, 0, 0), CorrectionB(t)), Factor(t))
    /\ rsLinks' = Append(CumulativeLinks(terms, 0, 0, Factor(t)), total')
    /\ rpc' = "return"
    /\ UNCHANGED <<t, v, spawnK, termSent, termCh, collectI, terms, termOutOfOrder>>
    /\ UNCHANGED <<engineVars, dsVars, groupVars, clientVars, emVars, natsVars>>

\* -------------------------------------------------------------- NATS client
\* the client's own call: N = int(|0.5 + 14.135i|) = 14, chunkSize = 1000
ClientCall == [N |-> 14, chunkSize |-> 1000]

ClientIdle ==
    /\ reqN = 0
    /\ reqChunkSize = 1
    /\ reqStart = 0
    /\ published = << >>
    /\ cpc = "idle"

\* the client before its publishing loop, with its own N and chunkSize or
\* with small ones
ClientInit ==
    /\ \/ /\ reqN \in 0..MaxTerms
          /\ reqChunkSize \in 1..MaxChunk
       \/ /\ reqN = ClientCall.N
          /\ reqChunkSize = ClientCall.chunkSize
    /\ reqStart = 1
    /\ published = << >>
    /\ cpc = "publish"

\* a request that always ends one chunk after its start
UnclampedRequest(start, c, n) == [Start |-> start, End |-> start + c]

\* end := start + chunkSize; if end > N { end = N }
Request(start, c, n) ==
    [Start |-> start, End |-> IF start + c > n THEN n ELSE start + c]

\* one iteration of the publishing loop
Publish ==
    /\ cpc = "publish"
    /\ reqStart < reqN
    /\ published' = Append(published, Request(reqStart, reqChunkSize, reqN))
    /\ reqStart' = reqStart + reqChunkSize
    /\ UNCHANGED <<reqN, reqChunkSize, cpc>>
    /\ UNCHANGED <<engineVars, dsVars, groupVars, rsVars, emVars, natsVars>>

\* the publishing loop ends; the client asks the reducer for the result
PublishEnd ==
    /\ cpc = "publish"
    /\ reqStart >= reqN
    /\ cpc' = "request"
    /\ UNCHANGED <<reqN, reqChunkSize, reqStart, published>>
    /\ UNCHANGED <<engineVars, dsVars, groupVars, rsVars, emVars, natsVars>>

\* ------------------------------------------------- NATS worker and reducer
\* wg.Add(10) in the program; the model scales the number of expected
\* partial results down
ExpectedResults == 3

\* the exponent of the client's requests, s = 2 in place of 0.5 + 14.135i
ClientS == <<2, 0>>

NatsIdle ==
    /\ handled = {}
    /\ reduceQ = <<>>
    /\ rdPc = "idle"
    /\ rdWg = 0
    /\ finalSum = Zero
    /\ rdCallback = "idle"
    /\ decodedSums = <<>>
    /\ finalPublished = <<>>

\* the workers and the reducer are up when the client starts: the reducer
\* has installed its subscription and has not yet reached wg.Add
NatsInit ==
    /\ handled = {}
    /\ reduceQ = <<>>
    /\ rdPc = "subscribed"
    /\ rdWg = 0
    /\ finalSum = Zero
    /\ rdCallback = "idle"
    /\ decodedSums = <<>>
    /\ finalPublished = <<>>

\* the client's nc.Request(*reduceSubject, nil, 10*time.Second): a message
\* without data goes out on the reduce subject and the client waits for a
\* reply to it
ClientRequest ==
    /\ cpc = "request"
    /\ reduceQ' = Append(reduceQ, [ok |-> FALSE, sum |-> Zero])
    /\ cpc' = "waiting"
    /\ UNCHANGED <<reqN, reqChunkSize, reqStart, published>>
    /\ UNCHANGED <<handled, rdPc, rdWg, finalSum, rdCallback, decodedSums, finalPublished>>
    /\ UNCHANGED <<engineVars, dsVars, groupVars, rsVars, emVars>>

\* no program replies to the request (the reducer publishes on the final
\* subject and never on msg.Reply), so the wait ends with the timeout error
\* and log.Fatalf
ClientTimeout ==
    /\ cpc = "waiting"
    /\ cpc' = "fatal"
    /\ UNCHANGED <<reqN, reqChunkSize, reqStart, published>>
    /\ UNCHANGED natsVars
    /\ UNCHANGED <<engineVars, dsVars, groupVars, rsVars, emVars>>

\* the partial sum a worker computes for a request
WorkerSum(req) == computePartialSumWithLinks(req.Start, req.End, ClientS).sum

\* request j has been published and no worker has handled it yet
Unanswered(j) ==
    /\ j \in DOMAIN published
    /\ j \notin handled

\* a worker's callback for request j: it computes the partial sum and
\* publishes it on the reduce subject
WorkerAnswer(j) ==
    /\ Unanswered(j)
    /\ handled' = handled \cup {j}
    /\ reduceQ' = Append(reduceQ, [ok |-> TRUE, sum |-> WorkerSum(published[j])])
    /\ UNCHANGED <<rdPc, rdWg, finalSum, rdCallback, decodedSums, finalPublished>>
    /\ UNCHANGED <<engineVars, dsVars, groupVars, rsVars, clientVars, emVars>>

\* the reducer's process is running
ReducerUp == rdPc \in {"subscribed", "wait", "woken"}

\* the subscription callback up to mu.Unlock(): a message that does not
\* decode is logged and dropped, a partial result is added to finalSum
Deliver ==
    /\ ReducerUp
    /\ rdCallback = "idle"
    /\ Len(reduceQ) > 0
    /\ reduceQ' = Tail(reduceQ)
    /\ IF Head(reduceQ).ok
       THEN /\ finalSum' = CAdd(finalSum, Head(reduceQ).sum)
            /\ decodedSums' = Append(decodedSums, Head(reduceQ).sum)
            /\ rdCallback' = "done"
       ELSE UNCHANGED <<finalSum, decodedSums, rdCallback>>
    /\ UNCHANGED <<handled, rdPc, rdWg, finalPublished>>
    /\ UNCHANGED <<engineVars, dsVars, groupVars, rsVars, clientVars, emVars>>

\* wg.Done(): the counter is decremented; below zero Add panics
DoneCounter(counter) == counter - 1

\* the end of the callback: wg.Done(), which panics and ends the process
\* when the counter falls below zero
CallbackDone ==
    /\ ReducerUp
    /\ rdCallback = "done"
    /\ rdWg' = DoneCounter(rdWg)
    /\ rdCallback' = "idle"
    /\ rdPc' = (IF DoneCounter(rdWg) < 0 THEN "panic" ELSE rdPc)
    /\ UNCHANGED <<handled, reduceQ, finalSum, decodedSums, finalPublished>>
    /\ UNCHANGED <<engineVars, dsVars, groupVars, rsVars, clientVars, emVars>>

\* wg.Add(10), after the subscription has been installed
ReducerAdd ==
    /\ rdPc = "subscribed"
    /\ rdWg' = rdWg + ExpectedResults
    /\ rdPc' = "wait"
    /\ UNCHANGED <<handled, reduceQ, finalSum, rdCallback, decodedSums, finalPublished>>
    /\ UNCHANGED <<engineVars, dsVars, groupVars, rsVars, clientVars, emVars>>

\* wg.Wait() returns
ReducerWake ==
    /\ rdPc = "wait"
    /\ WaitReturns(rdWg)
    /\ rdPc' = "woken"
    /\ UNCHANGED <<handled, reduceQ, rdWg, finalSum, rdCallback, decodedSums, finalPublished>>
    /\ UNCHANGED <<engineVars, dsVars, groupVars, rsVars, clientVars, emVars>>

\* finalResp := PartialSumResponse{PartialSum: finalSum}, read without the
\* mutex; nc.Publish(*finalSubject, ...); main returns
ReducerPublish ==
    /\ rdPc = "woken"
    /\ finalPublished' = Append(finalPublished, finalSum)
    /\ rdPc' = "exit"
    /\ UNCHANGED <<handled, reduceQ, rdWg, finalSum, rdCallback, decodedSums>>
    /\ UNCHANGED <<engineVars, dsVars, groupVars, rsVars, clientVars, emVars>>

\* --------------------------------------------- channel-based Euler-Maclaurin
EMIdle ==
    /\ emS = <<0, 0>>
    /\ emWithLinks = FALSE
    /\ emMinN = 0
    /\ emChunkSize = 1
    /\ emN = 0
    /\ emStart = 0
    /\ emWg = 0
    /\ emWorker = <<>>
    /\ emResults = <<>>
    /\ emLinksCh = <<>>
    /\ emClosed = FALSE
    /\ emTotal = Zero
    /\ emAllLinks = <<>>
    /\ emPc = "idle"
    /\ emSumFrom = <<>>
    /\ emListFrom = <<>>

\* a call of eulerMaclaurinWithLinks (N clamped to MinN..MaxN) or of
\* eulerMaclaurin (N not clamped), with the constants scaled down
EMInit ==
    /\ emS \in SValues
    /\ emWithLinks \in BOOLEAN
    /\ emMinN \in (IF emWithLinks THEN MinNValues ELSE {0})
    /\ emChunkSize \in 1..MaxChunk
    /\ emN = 0
    /\ emStart = 0
    /\ emWg = 0
    /\ emWorker = <<>>
    /\ emResults = <<>>
    /\ emLinksCh = <<>>
    /\ emClosed = FALSE
    /\ emTotal = Zero
    /\ emAllLinks = <<>>
    /\ emPc = "enter"
    /\ emSumFrom = <<>>
    /\ emListFrom = <<>>

\* a channel with room for one chunk less than N/ChunkSize rounded up
OneShort(n, c) == GoDiv(n + c - 1, c) - 1

\* make(chan complex128, (N+ChunkSize-1)/ChunkSize)
Capacity(n, c) == GoDiv(n + c - 1, c)

\* N := int(cmplx.Abs(s)), clamped in eulerMaclaurinWithLinks
EMEnter ==
    /\ emPc = "enter"
    /\ emN' = (IF emWithLinks THEN Clamp(IntAbs(emS), emMinN, MaxTerms) ELSE IntAbs(emS))
    /\ emStart' = 1
    /\ emPc' = "launch"
    /\ UNCHANGED <<emS, emWithLinks, emMinN, emChunkSize, emWg, emWorker, emResults,
                   emLinksCh, emClosed, emTotal, emAllLinks, emSumFrom, emListFrom>>
    /\ UNCHANGED <<engineVars, dsVars, groupVars, rsVars, clientVars, natsVars>>

\* one iteration of the launch loop: wg.Add(1); go computePartialSum...
EMLaunch ==
    /\ emPc = "launch"
    /\ emStart < emN
    /\ emWg' = emWg + 1
    /\ emWorker' = Append(emWorker, [start |-> emStart,
                                     end |-> Min(emStart + emChunkSize, emN),
                                     at |-> "sum"])
    /\ emStart' = emStart + emChunkSize
    /\ UNCHANGED <<emS, emWithLinks, emMinN, emChunkSize, emN, emResults, emLinksCh,
                   emClosed, emTotal, emAllLinks, emPc, emSumFrom, emListFrom>>
    /\ UNCHANGED <<engineVars, dsVars, groupVars, rsVars, clientVars, natsVars>>

\* the launch loop ends: the closing goroutine is started and the caller
\* starts to range over results
EMLaunchEnd ==
    /\ emPc = "launch"
    /\ emStart >= emN
    /\ emPc' = "results"
    /\ UNCHANGED <<emS, emWithLinks, emMinN, emChunkSize, emN, emStart, emWg, emWorker,
                   emResults, emLinksCh, emClosed, emTotal, emAllLinks, emSumFrom,
                   emListFrom>>
    /\ UNCHANGED <<engineVars, dsVars, groupVars, rsVars, clientVars, natsVars>>

\* goroutine j can send its partial sum: results has room
CanSendSum(j) ==
    /\ j \in DOMAIN emWorker
    /\ emWorker[j].at = "sum"
    /\ Len(emResults) < Capacity(emN, emChunkSize)

\* goroutine j: results <- partialSum; computePartialSum then returns and
\* its deferred wg.Done() runs
EMSendSum(j) ==
    /\ CanSendSum(j)
    /\ emResults' = Append(emResults,
           [from |-> j,
            sum |-> computePartialSumWithLinks(emWorker[j].start, emWorker[j].end, emS).sum])
    /\ IF emWithLinks
       THEN /\ emWorker' = [emWorker EXCEPT ![j].at = "links"]
            /\ UNCHANGED emWg
       ELSE /\ emWorker' = [emWorker EXCEPT ![j].at = "done"]
            /\ emWg' = emWg - 1
    /\ UNCHANGED <<emS, emWithLinks, emMinN, emChunkSize, emN, emStart, emLinksCh,
                   emClosed, emTotal, emAllLinks, emPc, emSumFrom, emListFrom>>
    /\ UNCHANGED <<engineVars, dsVars, groupVars, rsVars, clientVars, natsVars>>

\* goroutine j can send its link list: links has room
CanSendLinks(j) ==
    /\ j \in DOMAIN emWorker
    /\ emWorker[j].at = "links"
    /\ Len(emLinksCh) < Capacity(emN, emChunkSize)

\* goroutine j of eulerMaclaurinWithLinks: links <- linkList, then the
\* deferred wg.Done()
EMSendLinks(j) ==
    /\ CanSendLinks(j)
    /\ emLinksCh' = Append(emLinksCh,
           [from |-> j,
            list |-> computePartialSumWithLinks(emWorker[j].start, emWorker[j].end, emS).links])
    /\ emWorker' = [emWorker EXCEPT ![j].at = "done"]
    /\ emWg' = emWg - 1
    /\ UNCHANGED <<emS, emWithLinks, emMinN, emChunkSize, emN, emStart, emResults,
                   emClosed, emTotal, emAllLinks, emPc, emSumFrom, emListFrom>>
    /\ UNCHANGED <<engineVars, dsVars, groupVars, rsVars, clientVars, natsVars>>

\* the closing goroutine has been started and its wg.Wait() returns
EMCanClose ==
    /\ emPc \in {"results", "links"}
    /\ ~emClosed
    /\ WaitReturns(emWg)

\* the closing goroutine: wg.Wait(); close(results); close(links)
EMClose ==
    /\ EMCanClose
    /\ emClosed' = TRUE
    /\ UNCHANGED <<emS, emWithLinks, emMinN, emChunkSize, emN, emStart, emWg, emWorker,
                   emResults, emLinksCh, emTotal, emAllLinks, emPc, emSumFrom,
                   emListFrom>>
    /\ UNCHANGED <<engineVars, dsVars, groupVars, rsVars, clientVars, natsVars>>

\* for partialSum := range results { totalSum += partialSum }
EMReceiveSum ==
    /\ emPc = "results"
    /\ Len(emResults) > 0
    /\ emTotal' = CAdd(emTotal, Head(emResults).sum)
    /\ emSumFrom' = Append(emSumFrom, Head(emResults).from)
    /\ emResults' = Tail(emResults)
    /\ UNCHANGED <<emS, emWithLinks, emMinN, emChunkSize, emN, emStart, emWg, emWorker,
                   emLinksCh, emClosed, emAllLinks, emPc, emListFrom>>
    /\ UNCHANGED <<engineVars, dsVars, groupVars, rsVars, clientVars, natsVars>>

\* the range over results ends once results is closed and drained;
\* eulerMaclaurin then adds the correction terms and returns
EMResultsEnd ==
    /\ emPc = "results"
    /\ Len(emResults) = 0
    /\ emClosed
    /\ IF emWithLinks
       THEN /\ emPc' = "links"
            /\ UNCHANGED emTotal
       ELSE /\ emPc' = "return"
            /\ emTotal' = CAdd(emTotal, Correction(emN, emS))
    /\ UNCHANGED <<emS, emWithLinks, emMinN, emChunkSize, emN, emStart, emWg, emWorker,
                   emResults, emLinksCh, emClosed, emAllLinks, emSumFrom, emListFrom>>
    /\ UNCHANGED <<engineVars, dsVars, groupVars, rsVars, clientVars, natsVars>>

\* for linkList := range links { allLinks = append(allLinks, linkList...) }:
\* one iteration
EMReceiveLinks ==
    /\ emPc = "links"
    /\ Len(emLinksCh) > 0
    /\ emAllLinks' = emAllLinks \o Head(emLinksCh).list
    /\ emListFrom' = Append(emListFrom, Head(emLinksCh).from)
    /\ emLinksCh' = Tail(emLinksCh)
    /\ UNCHANGED <<emS, emWithLinks, emMinN, emChunkSize, emN, emStart, emWg, emWorker,
                   emResults, emClosed, emTotal, emPc, emSumFrom>>
    /\ UNCHANGED <<engineVars, dsVars, groupVars, rsVars, clientVars, natsVars>>

\* the range over links ends; the correction terms are added and
\* eulerMaclaurinWithLinks returns
EMLinksEnd ==
    /\ emPc = "links"
    /\ Len(emLinksCh) = 0
    /\ emClosed
    /\ emTotal' = CAdd(emTotal, Correction(emN, emS))
    /\ emPc' = "return"
    /\ UNCHANGED <<emS, emWithLinks, emMinN, emChunkSize, emN, emStart, emWg, emWorker,
                   emResults, emLinksCh, emClosed, emAllLinks, emSumFrom, emListFrom>>
    /\ UNCHANGED <<engineVars, dsVars, groupVars, rsVars, clientVars, natsVars>>

vars == <<engineVars, dsVars, groupVars, rsVars, clientVars, emVars, natsVars>>

Init ==
    \/ EngineInit /\ DSIdle /\ GroupIdle /\ RSIdle /\ ClientIdle /\ NatsIdle /\ EMIdle
    \/ EngineIdle /\ DSInit /\ GroupIdle /\ RSIdle /\ ClientIdle /\ NatsIdle /\ EMIdle
    \/ EngineIdle /\ DSIdle /\ GroupInit /\ RSIdle /\ ClientIdle /\ NatsIdle /\ EMIdle
    \/ EngineIdle /\ DSIdle /\ GroupIdle /\ RSInit /\ ClientIdle /\ NatsIdle /\ EMIdle
    \/ EngineIdle /\ DSIdle /\ GroupIdle /\ RSIdle /\ ClientInit /\ NatsInit /\ EMIdle
    \/ EngineIdle /\ DSIdle /\ GroupIdle /\ RSIdle /\ ClientIdle /\ NatsIdle /\ EMInit

Next ==
    \/ SetMaxN
    \/ Prepare
    \/ Launch
    \/ LaunchEnd
    \/ \E idx \in 0..MaxTerms : StoreSum(idx)
    \/ \E idx \in 0..MaxTerms : StoreLinks(idx)
    \/ \E idx \in 0..MaxTerms : WorkerDone(idx)
    \/ Wait
    \/ Chain
    \/ ChainEnd
    \/ Correct
    \/ SerialEnter
    \/ SerialStep
    \/ SerialFlush
    \/ ParallelEnter
    \/ Spawn
    \/ SpawnEnd
    \/ \E c \in 0..MaxCPU : ChunkWorker(c)
    \/ CloseResults
    \/ Receive
    \/ CollectEnd
    \/ Merge
    \/ MergeEnd
    \/ GroupEnter
    \/ GroupStep
    \/ GroupReturn
    \/ RSEnter
    \/ RSSpawn
    \/ \E k \in 0..MaxTermIndex : TermWorker(k)
    \/ RSCollect
    \/ RSFinish
    \/ Publish
    \/ PublishEnd
    \/ ClientRequest
    \/ ClientTimeout
    \/ \E j \in 1..MaxTerms : WorkerAnswer(j)
    \/ Deliver
    \/ CallbackDone
    \/ ReducerAdd
    \/ ReducerWake
    \/ ReducerPublish
    \/ EMEnter
    \/ EMLaunch
    \/ EMLaunchEnd
    \/ \E j \in 1..MaxTerms : EMSendSum(j)
    \/ \E j \in 1..MaxTerms : EMSendLinks(j)
    \/ EMClose
    \/ EMReceiveSum
    \/ EMResultsEnd
    \/ EMReceiveLinks
    \/ EMLinksEnd

Spec == Init /\ [][Next]_vars

\* ------------------------------------------------------------ engine claims
\* the result of the run in which chunk c is summed and chained before chunk c + 1
RECURSIVE InOrderFrom(_, _, _, _, _, _)
InOrderFrom(c, nc, n, width, sx, acc) ==
    IF c >= nc THEN acc
    ELSE LET r == computePartialSumWithLinks(ChunkStart(c, width),
                                             ChunkEnd(c, width, n), sx)
         IN  InOrderFrom(c + 1, nc, n, width, sx,
                 [sum   |-> CAdd(acc.sum, r.sum),
                  links |-> acc.links \o
                            [j \in 1..Len(r.links) |-> CAdd(r.links[j], acc.sum)]])

InOrder(n, width, sx) ==
    InOrderFrom(0, NumChunks(n, width), n, width, sx, [sum |-> Zero, links |-> <<>>])

\* the sum of |re| and of |im| of the terms 1..k
RECURSIVE SumAbsRe(_, _)
SumAbsRe(k, sx) == IF k < 1 THEN 0 ELSE Abs(Term(k, sx).re) + SumAbsRe(k - 1, sx)

RECURSIVE SumAbsIm(_, _)
SumAbsIm(k, sx) == IF k < 1 THEN 0 ELSE Abs(Term(k, sx).im) + SumAbsIm(k - 1, sx)

\* x and y are two float64 sums of the same k terms, each within the rounding
\* error bound (k-1)u/(1-(k-1)u) * sumAbs of the exact sum, u = 2^-Precision
WithinRounding(x, y, k, sumAbs) ==
    Abs(x - y) * ((2 ^ Precision) - (k - 1)) <= 2 * (k - 1) * sumAbs

Single == calculateSingleThreadedPartialSums(s, N)

AllFinite(seq) == \A j \in 1..Len(seq) : seq[j].fin

\* C1 as stated: before the correction is added, element j-1 (0-based) of the
\* chained trajectory is the very float64 value that the single-threaded
\* accumulation holds at index j, and the running total is its last value.
C1_SameAsSingleThreaded ==
    (pc = "correct" /\ N >= 1) =>
        /\ Len(chainedLinks) = N - 1
        /\ \A j \in 1..Len(chainedLinks) : chainedLinks[j] = Single[j + 1]
        /\ totalSum = Single[N]

\* C1 amended: the chained trajectory has the single-threaded length, agrees
\* with the single-threaded accumulation exactly throughout the first chunk,
\* and elsewhere (and in the total) up to the rounding error of float64
\* summation.
C1_SameUpToRounding ==
    (pc = "correct" /\ N >= 1) =>
        /\ Len(chainedLinks) = N - 1
        /\ \A j \in 1..Len(chainedLinks) :
              /\ chainedLinks[j].fin = Single[j + 1].fin
              /\ j <= ChunkSize => chainedLinks[j] = Single[j + 1]
              /\ WithinRounding(chainedLinks[j].re, Single[j + 1].re, j, SumAbsRe(j, s))
              /\ WithinRounding(chainedLinks[j].im, Single[j + 1].im, j, SumAbsIm(j, s))
        /\ WithinRounding(totalSum.re, Single[N].re, N - 1, SumAbsRe(N - 1, s))
        /\ WithinRounding(totalSum.im, Single[N].im, N - 1, SumAbsIm(N - 1, s))

\* a run with several chunks whose chained values differ from the
\* single-threaded ones
C1_Witness ==
    /\ pc = "correct"
    /\ numChunks >= 3
    /\ \E j \in 1..Len(chainedLinks) : chainedLinks[j] # Single[j + 1]

\* C2: whatever the interleaving of the chunk goroutines, the returned total
\* and trajectory are the ones of the in-order run for the same s, N, ChunkSize.
C2_Deterministic ==
    pc = "done" =>
        /\ chainedLinks = CorrectedLinks(InOrder(N, ChunkSize, s).links, Correction(N, s))
        /\ totalSum = CAdd(InOrder(N, ChunkSize, s).sum, Correction(N, s))

\* a finished run whose goroutines completed out of index order
C2_Witness == pc = "done" /\ numChunks >= 3 /\ outOfOrder /\ Len(chainedLinks) >= 3

\* C3: on return every element but the last is the uncorrected chained value,
\* the last one and the total carry the correction once, and the last element
\* equals the total.
C3_CorrectionOnce ==
    pc = "done" =>
        LET u == InOrder(N, ChunkSize, s)
            n == Len(chainedLinks)
        IN  /\ n = Len(u.links)
            /\ \A j \in 1..n - 1 : chainedLinks[j] = u.links[j]
            /\ totalSum = CAdd(u.sum, Correction(N, s))
            /\ n > 0 => chainedLinks[n] = CAdd(u.links[n], Correction(N, s))
            /\ n > 0 => chainedLinks[n] = totalSum

\* a return with an empty last chunk and a correction that changes the total
C3_Witness ==
    /\ pc = "done"
    /\ numChunks >= 2
    /\ worker[numChunks - 1].st = worker[numChunks - 1].ed
    /\ Len(chainedLinks) >= 2
    /\ totalSum.fin
    /\ totalSum # runningSum

\* C4: the trajectory holds one element per term index 1..N-1, in that order
\* (N - 1 elements).
C4_Length ==
    pc = "done" =>
        /\ chainedTerm = [k \in 1..N - 1 |-> k]
        /\ Len(chainedLinks) = Len(chainedTerm)

\* a return whose last chunk is shorter than ChunkSize
C4_Witness ==
    /\ pc = "done"
    /\ N >= 4
    /\ ChunkSize >= 2
    /\ (N - 1) % ChunkSize # 0
    /\ Len(chainedLinks) = N - 1

\* C5 as stated: the term count in use lies between MinN and MaxN.
C5_Clamped == pc \notin {"main", "clamp"} => (MinN <= N /\ N <= MaxN)

\* C6 as stated: at the pole s = 1 no non-finite total or link is returned.
C6_PoleRejected ==
    (pc = "done" /\ s = <<1, 0>>) => (totalSum.fin /\ AllFinite(chainedLinks))

\* ------------------------------------------------------- downsampler claims
\* a configuration the specification calls invalid: a non-positive output
\* resolution or an aggressiveness outside [0, 4]
InvalidConfig == outputSize <= 0 \/ aggressiveness < 0 \/ aggressiveness > 8

\* a downsampling call is past its entry
Computing == dpc \in {"walk", "spawn", "collect", "merge", "return"}

\* C7 as stated: on an invalid configuration no point is processed, no worker
\* is started and nothing is returned as a result.
C7_InvalidRejected == InvalidConfig => ~Computing

\* the chunk that term index k belongs to
OwnerChunk(k) == GoDiv(k - 1, ChunkSize)

Nondecreasing(seq) == \A a, b \in 1..Len(seq) : a < b => seq[a] <= seq[b]

\* C8: in the engine's trajectory and in the parallel downsampler's output,
\* all output of chunk i precedes all output of chunk j whenever i < j,
\* whatever the completion or arrival order of the workers.
C8_IndexOrder ==
    /\ pc = "done" => Nondecreasing([j \in 1..Len(chainedTerm) |-> OwnerChunk(chainedTerm[j])])
    /\ dpc = "return" => Nondecreasing(finalOwner)

\* a parallel downsampling whose results arrived out of index order and whose
\* output holds points of several chunks
C8_Witness ==
    /\ dpc = "return"
    /\ arrivedOutOfOrder
    /\ \E a, b \in 1..Len(finalOwner) : finalOwner[a] # finalOwner[b]

\* a non-empty input under a valid configuration
ValidCall == Len(links) > 0 /\ ~InvalidConfig

\* C9 as stated: the returned trajectory has no more points than the input.
C9_NoLonger == (dpc = "return" /\ ValidCall) => Len(returned) <= Len(links)

\* C9 amended: apart from the points interpolated across pixel gaps, the
\* returned trajectory has at least one point and no more points than the
\* input (one mean per group of input points).
C9_MeansNoLonger ==
    (dpc = "return" /\ ValidCall) =>
        /\ Len(returned) - interpolated >= 1
        /\ Len(returned) - interpolated <= Len(links)

\* a return that merged input points into a group and also interpolated
C9_Witness ==
    /\ dpc = "return"
    /\ ValidCall
    /\ interpolated > 0
    /\ Len(returned) - interpolated < Len(links)
    /\ Len(returned) > Len(links)

\* C10: when the relative spread is within maxRelativeSpread the downsampler
\* returns exactly one point, the arithmetic mean of the input (to the nearest
\* coordinate unit), and neither groups, nor starts workers, nor interpolates.
C10_CollapseToMean ==
    (dpc = "return" /\ Len(links) > 0 /\ RelativelyClose(ViewBounds(links), aggressiveness)) =>
        /\ Len(returned) = 1
        /\ \A c \in 1..2 :
              2 * Abs(Len(links) * returned[1][c] - SumOf(links, c, 1)) <= Len(links)
        /\ interpolated = 0
        /\ currentGroup = NoGroup /\ downsampled = <<>>
        /\ w = 0 /\ results = <<>> /\ finalPoints = <<>>

\* a collapse of a trajectory that holds different points
C10_Witness ==
    /\ dpc = "return"
    /\ Len(links) >= 2
    /\ RelativelyClose(ViewBounds(links), aggressiveness)
    /\ \E j \in 1..Len(links) : links[j] # links[1]
    /\ Len(returned) = 1

\* the call of the state is the given one
IsCall(call) ==
    /\ links = call.links
    /\ outputSize = call.outputSize
    /\ aggressiveness = call.aggressiveness

\* C11 as stated: the three points (1,1), (1.0001,1.0001), (1.0002,1.0002) at
\* resolution 2048 and aggressiveness 0.0 come back as exactly one point, the
\* mean of the three.
C11_SamePixelOnePoint ==
    (dpc = "return" /\ IsCall(SamePixelCall)) =>
        /\ Len(returned) = 1
        /\ returned[1] = <<10001, 10001>>

\* C12 as stated: the two points (1,1), (100,100) at resolution 100 and
\* aggressiveness 0.5 come back as exactly 142 points.
C12_Interpolate142 ==
    (dpc = "return" /\ IsCall(InterpolateCall)) => Len(returned) = 142

\* the pixels of the two points of a two-point call, and their squared gap
TwoPointGap ==
    LET p1 == pixelForLink(links[1], Env)
        p2 == pixelForLink(links[2], Env)
    IN  (p2[1] - p1[1]) * (p2[1] - p1[1]) + (p2[2] - p1[2]) * (p2[2] - p1[2])

\* a two-point call at an aggressiveness in [0, 4] that is neither collapsed by
\* the short-circuit nor merged into one group
TwoSeparatePoints ==
    /\ Len(links) = 2
    /\ aggressiveness \in 0..8
    /\ ~RelativelyClose(ViewBounds(links), aggressiveness)
    /\ ~SameGroup(NewGroup(links[1], pixelForLink(links[1], Env)),
                  pixelForLink(links[2], Env), aggressiveness)

\* the number of points the code interpolates across the gap of a two-point call
TwoPointSteps ==
    IF GapExceeds(TwoPointGap, aggressiveness)
    THEN Max(Steps(TwoPointGap, aggressiveness), 0)
    ELSE 0

\* C13: a two-point input that is neither collapsed nor merged comes back as
\* its first point, then the interpolated points, then its second point:
\* 2 + steps points in all.
C13_TwoPointEnds ==
    (dpc = "return" /\ TwoSeparatePoints) =>
        /\ Len(returned) = 2 + TwoPointSteps
        /\ returned[1] = links[1]
        /\ returned[Len(returned)] = links[2]
        /\ interpolated = TwoPointSteps

\* a two-point return with interpolated points between the two ends
C13_Witness ==
    /\ dpc = "return"
    /\ TwoSeparatePoints
    /\ TwoPointSteps > 0
    /\ Len(returned) > 2

\* C14 as stated: what a call returns at its aggressiveness has no more points
\* than what the same trajectory and resolution return at any smaller
\* aggressiveness in [0, 4].
C14_MonotoneInAggressiveness ==
    (dpc = "return" /\ w = 0 /\ Len(links) > 0 /\ aggressiveness \in 0..8) =>
        \A a1 \in 0..aggressiveness :
            Len(returned) <= Len(downsampleComplexSerial(links, [Env EXCEPT !.a2 = a1]))

\* the trajectory of the call has fewer links than the parallel threshold
FewerThanThreshold ==
    (\E call \in TrueScaleCalls : call.links = links) \/ Len(links) < ParallelThreshold

\* C15: downsampleComplex called with fewer links than the threshold starts
\* no worker and returns exactly what downsampleComplexSerial returns for the
\* same trajectory, resolution and aggressiveness.
C15_DelegatesToSerial ==
    (entry = "parallel" /\ FewerThanThreshold) =>
        /\ w = 0 /\ dwg = 0 /\ chunkWorker = <<>> /\ results = <<>>
        /\ dpc = "return" => returned = downsampleComplexSerial(links, Env)

\* a small call of downsampleComplex that returned several points
C15_Witness ==
    /\ entry = "parallel"
    /\ FewerThanThreshold
    /\ dpc = "return"
    /\ Len(links) >= 2
    /\ Len(returned) >= 2

\* C16: for an empty trajectory both entry points return the empty trajectory,
\* at every resolution and aggressiveness, without touching a point, a pixel,
\* a group or a worker on the way.
C16_EmptyInEmptyOut ==
    (entry \in {"serial", "parallel"} /\ Len(links) = 0) =>
        /\ dpc \in {"serial", "parallel", "return"}
        /\ dpc = "parallel" => ENABLED ParallelEnter
        /\ dpc = "serial" => ENABLED SerialEnter
        /\ dpc = "return" => returned = <<>>
        /\ currentGroup = NoGroup /\ walkI = 0 /\ downsampled = <<>>
        /\ w = 0 /\ chunkWorker = <<>> /\ results = <<>>

\* downsampleComplex returned from an empty trajectory under an invalid
\* configuration
C16_Witness ==
    /\ entry = "parallel"
    /\ Len(links) = 0
    /\ dpc = "return"
    /\ outputSize = 0
    /\ aggressiveness = 10

\* C17: a trajectory of exactly one point comes back as that one point, at
\* every resolution and every aggressiveness in [0, 4], from either entry point.
C17_SinglePointUnchanged ==
    (dpc = "return" /\ Len(links) = 1 /\ aggressiveness \in 0..8) =>
        returned = <<links[1]>>

\* a single point away from the origin returned at resolution 0 and at
\* aggressiveness 4.0
C17_Witness ==
    /\ dpc = "return"
    /\ links = << <<300, 300>> >>
    /\ outputSize = 0
    /\ aggressiveness = 8
    /\ Len(returned) = 1

\* a call of downsampleComplex on at least the threshold number of links that
\* is past its entry
ParallelPastEntry ==
    /\ entry = "parallel"
    /\ ~FewerThanThreshold
    /\ dpc \in {"spawn", "collect", "merge", "return"}

\* the call took the short-circuit: it returned without starting the spawn loop
TookShortCircuit == dpc = "return" /\ chunkWorker = <<>>

\* C18: on at least the threshold number of links the parallel reducer takes
\* the collapse short-circuit exactly when the sequential reducer's test on
\* the bounds of the whole trajectory succeeds, and then returns the single
\* mean the sequential reducer returns.
C18_SameShortCircuit ==
    ParallelPastEntry =>
        /\ TookShortCircuit <=> RelativelyClose(ViewBounds(links), aggressiveness)
        /\ TookShortCircuit =>
              /\ Len(returned) = 1
              /\ returned = downsampleComplexSerial(links, Env)

\* a parallel call on different points that collapsed to one point
C18_Witness ==
    /\ ParallelPastEntry
    /\ TookShortCircuit
    /\ numWorkers >= 2
    /\ \E j \in 1..Len(links) : links[j] # links[1]

\* the bounding boxes of two non-empty point sequences overlap
BoxesOverlap(p, q) ==
    LET a == ViewBounds(p)
        b == ViewBounds(q)
    IN  /\ a.minX <= b.maxX /\ b.minX <= a.maxX
        /\ a.minY <= b.maxY /\ b.minY <= a.maxY

\* C19 as stated: on at least the threshold number of links, what the parallel
\* reducer returns (for any number of workers) and what the sequential reducer
\* returns differ in length by at most 5% and have overlapping bounding boxes.
C19_CountsWithinFivePercent ==
    (ParallelPastEntry /\ dpc = "return" /\ ~InvalidConfig) =>
        LET serial == downsampleComplexSerial(links, Env)
        IN  /\ 20 * Abs(Len(returned) - Len(serial)) <= Len(serial)
            /\ BoxesOverlap(returned, serial)
\* the call downsample(points, groupSize) with groupSize >= 1 has returned
Averaged == gpc = "return" /\ groupSize >= 1

\* C20: downsample(points, g) with g >= 1 returns floor(len(points) / g)
\* points, in order, the i-th being the component-wise mean of
\* points[i*g .. i*g+g-1]; the trailing len(points) mod g points contribute
\* to no output
C20_GroupMeans ==
    Averaged =>
        /\ Len(groupResult) = Len(points) \div groupSize
        /\ \A k \in 1..Len(groupResult) :
              groupResult[k] = AverageAll(SubSeq(points, (k - 1) * groupSize + 1, k * groupSize))

\* a call returned at least two means of groups of two or more points and
\* left a trailing point that differs from the last group's mean
C20_Witness ==
    /\ Averaged
    /\ groupSize >= 2
    /\ Len(groupResult) >= 2
    /\ Len(points) % groupSize /= 0
    /\ points[Len(points)] /= groupResult[Len(groupResult)]
    /\ groupResult[1] /= groupResult[2]

\* the sum of terms 0..k of the series for x, added in index order
RECURSIVE SumThrough(_, _)
SumThrough(x, k) == IF k < 0 THEN 0 ELSE FAdd(SumThrough(x, k - 1), SeriesTerm(x, k))

\* C21: reimannSiegelWithLinks with t > 0 returns exactly v + 1 links,
\* v = floor(sqrt(t / 2 pi)); link k (k < v) is built from the cumulative sum
\* of terms 0..k whatever the order in which the term goroutines deliver, and
\* the last link is the returned total
C21_LinksByIndex ==
    (rpc = "return") =>
        /\ t > 0
        /\ 6283185 * v * v <= t * 1000000
        /\ t * 1000000 < 6283185 * (v + 1) * (v + 1)
        /\ Len(rsLinks) = v + 1
        /\ \A k \in 0..(v - 1) :
              rsLinks[k + 1] = TimesFactor(2 * SumThrough(t, k), Factor(t))
        /\ rsLinks[v + 1] = total

\* a call returned three or more links after a term arrived ahead of a term of
\* a lower index
C21_Witness ==
    /\ rpc = "return"
    /\ v >= 2
    /\ termOutOfOrder
    /\ rsLinks[1] /= rsLinks[2]

\* every chunk goroutine of calculateSpiralPartialSums has written its slots
\* and returned
AllChunksWritten ==
    /\ DOMAIN worker = 0..(numChunks - 1)
    /\ \A idx \in DOMAIN worker : worker[idx].at = "done"

\* every worker of downsampleComplex has sent its result and main has stored it
AllResultsCollected ==
    /\ results = <<>>
    /\ \A c \in DOMAIN chunkWorker :
          /\ chunkWorker[c].at = "done"
          /\ chunkWorker[c].start < chunkWorker[c].end =>
                Len(collected[CollectSlot([index |-> c])].points) > 0

\* C22: no chaining step of calculateSpiralPartialSums reads partialSums or
\* allChunkLinks before every chunk worker has finished writing its slot, and
\* the merge of downsampleComplex starts only after the results of all
\* workers have been collected
C22_Barrier ==
    /\ (pc = "chain") => AllChunksWritten
    /\ (dpc = "merge") => AllResultsCollected

\* the chain loop runs over two or more chunks that finished out of order, and
\* the merge runs over two or more results that arrived out of order
C22_Witness ==
    \/ pc = "chain" /\ numChunks >= 2 /\ outOfOrder /\ i = 1
    \/ dpc = "merge" /\ Cardinality(DOMAIN chunkWorker) >= 2 /\ arrivedOutOfOrder /\ mergeI = 1

\* the ranges tile [1, n): every index of [1, n) lies in exactly one range and
\* no range holds an index outside it, each range holds at most c indices,
\* and the ranges are in ascending start order
Tiles(ranges, n, c) ==
    /\ \A k \in 1..(n - 1) :
          Cardinality({j \in DOMAIN ranges : ranges[j][1] <= k /\ k < ranges[j][2]}) = 1
    /\ \A j \in DOMAIN ranges :
          /\ ranges[j][1] <= ranges[j][2]
          /\ ranges[j][1] >= 1
          /\ ranges[j][2] <= Max(n, 1)
          /\ ranges[j][2] - ranges[j][1] <= c
    /\ \A j, k \in DOMAIN ranges : j < k => ranges[j][1] < ranges[k][1]

\* the launch loop of calculateSpiralPartialSums has started all its workers
Launched == pc \in {"wait", "chain", "correct", "done"}

\* the ranges handed to the workers, by chunk index
WorkerRanges == [idx \in DOMAIN worker |-> <<worker[idx].st, worker[idx].ed>>]

\* the ranges the client published, in publishing order
PublishedRanges == [j \in DOMAIN published |-> <<published[j].Start, published[j].End>>]

\* C23: the chunk ranges handed to the workers of calculateSpiralPartialSums
\* and the ranges the NATS client publishes cover every index of [1, N)
\* exactly once, each holds at most C indices, and they are in ascending
\* start order
C23_ChunksTile ==
    /\ Launched => Tiles(WorkerRanges, N, ChunkSize)
    /\ (cpc = "request") => Tiles(PublishedRanges, reqN, reqChunkSize)

\* the engine or the client has handed out two or more ranges, the last one
\* shorter than the chunk width
C23_Witness ==
    \/ /\ Launched
       /\ numChunks >= 2
       /\ worker[numChunks - 1].ed - worker[numChunks - 1].st \in 1..(ChunkSize - 1)
    \/ /\ cpc = "request"
       /\ Len(published) >= 2
       /\ published[Len(published)].End - published[Len(published)].Start
              \in 1..(reqChunkSize - 1)

\* C24 as stated: for N >= 2 and C >= 1, [1, N) is partitioned into exactly
\* ceil((N-1)/C) chunks and exactly that many workers are started
C24_ChunkCount ==
    (Launched /\ N >= 2 /\ ChunkSize >= 1) =>
        /\ numChunks = (N - 1 + ChunkSize - 1) \div ChunkSize
        /\ Cardinality(DOMAIN worker) = (N - 1 + ChunkSize - 1) \div ChunkSize

\* C25: during the parallel phase of calculateSpiralPartialSums each worker
\* writes only the slots of its own chunk index, no two workers have the same
\* index, and nothing reads the slots until the barrier: no slot is written
\* by two workers or read while a goroutine may still write it
C25_OwnSlotOnly ==
    /\ \A c \in DOMAIN writers : writers[c] \subseteq {c}
    /\ \A a, b \in DOMAIN worker : a /= b => WorkerSlot(a) /= WorkerSlot(b)
    /\ (pc \in {"chain", "correct", "done"}) =>
          \A idx \in DOMAIN worker : worker[idx].at \in {"stored", "done"}

\* main waits at the barrier while two goroutines have written their slots and
\* a goroutine of a lower index has not
C25_Witness ==
    /\ pc = "wait"
    /\ numChunks >= 3
    /\ Cardinality({c \in DOMAIN writers : writers[c] = {c}}) >= 2
    /\ \E c \in DOMAIN worker : worker[c].at = "ready" /\ writers[c] = {} /\ writers[c + 1] = {c + 1}

\* the merge loop is at a chunk with points whose successor has points too
AtBoundary ==
    /\ dpc = "merge"
    /\ mergeI + 1 < numWorkers
    /\ Len(collected[mergeI].points) > 0
    /\ Len(collected[mergeI + 1].points) > 0

\* the squared pixel gap between the bin of the final group of chunk c and the
\* bin of the first group of chunk c + 1
FirstBinGap(c) ==
    LET first == pixelForLink(links[chunkWorker[c + 1].start + 1], Env)
        dx    == first[1] - collected[c].lastPx
        dy    == first[2] - collected[c].lastPy
    IN  dx * dx + dy * dy

\* C26 as stated: at every pair of adjacent non-empty chunks the merge
\* measures the gap between the final group's bin of chunk i and the first
\* group's bin of chunk i+1, and inserts interpolated points between the two
\* outputs if and only if that gap exceeds interpolationThreshold
C26_BoundaryGap ==
    [][(AtBoundary /\ mergeI' = mergeI + 1) =>
          ((Len(finalPoints') > Len(finalPoints) + Len(collected[mergeI].points))
              <=> GapExceeds(FirstBinGap(mergeI), aggressiveness))]_vars

\* the bin of the next point of the serial walk
NextBin == pixelForLink(links[walkI + 1], Env)

\* the next point's bin is within 1 + 2 * aggressiveness of the active group's
\* bin on both axes (aggressiveness is counted in halves)
WithinSpread ==
    /\ Abs(NextBin[1] - currentGroup.pixelX) <= 1 + aggressiveness
    /\ Abs(NextBin[2] - currentGroup.pixelY) <= 1 + aggressiveness

\* C27: in the walk the next point is merged into the active group if and only
\* if its bin differs from the group's bin by at most 1 + 2*aggressiveness on
\* both axes; a merge adds the point to the sum, increments the count, sets
\* the last raw point and leaves the bin unchanged; otherwise the group is
\* flushed as one mean and a new group of count 1 is seeded with the point
C27_MergeOrFlush ==
    [][(dpc = "walk" /\ walkI' = walkI + 1) =>
          LET link == links[walkI + 1]
          IN  IF WithinSpread
              THEN /\ currentGroup' =
                         [sum |-> <<currentGroup.sum[1] + link[1],
                                    currentGroup.sum[2] + link[2]>>,
                          count |-> currentGroup.count + 1,
                          pixelX |-> currentGroup.pixelX,
                          pixelY |-> currentGroup.pixelY,
                          lastLink |-> link]
                   /\ downsampled' = downsampled
              ELSE /\ Len(downsampled') > Len(downsampled)
                   /\ SubSeq(downsampled', 1, Len(downsampled) + 1) =
                         Append(downsampled,
                                << RoundDiv(currentGroup.sum[1], currentGroup.count),
                                   RoundDiv(currentGroup.sum[2], currentGroup.count) >>)
                   /\ currentGroup' =
                         [sum |-> link, count |-> 1, pixelX |-> NextBin[1],
                          pixelY |-> NextBin[2], lastLink |-> link]]_vars

\* the walk has merged a point of another bin into the active group after
\* flushing none, and the next point lies beyond the spread threshold
C27_Witness ==
    /\ dpc = "walk"
    /\ ~InvalidConfig
    /\ currentGroup.count >= 2
    /\ pixelForLink(currentGroup.lastLink, Env) /= <<currentGroup.pixelX, currentGroup.pixelY>>
    /\ walkI < Len(links)
    /\ ~WithinSpread

\* the squared pixel gap between the active group's bin and the next bin
NextGap ==
    (NextBin[1] - currentGroup.pixelX) * (NextBin[1] - currentGroup.pixelX)
        + (NextBin[2] - currentGroup.pixelY) * (NextBin[2] - currentGroup.pixelY)

\* floor(gap / 2^min(aggressiveness, 3.5)) for the squared gap d2
FloorSteps(d2) ==
    CHOOSE n \in 0..ISqrt(d2) :
        /\ n * n * (2 ^ Min(aggressiveness, 7)) <= d2
        /\ d2 < (n + 1) * (n + 1) * (2 ^ Min(aggressiveness, 7))

\* the step count above aggressiveness 3.5: int(steps * (1 - 0.5 * t)) with
\* t = (aggressiveness - 3.5) / 0.5
ScaledSteps(d2) ==
    IF aggressiveness > 7
    THEN GoDiv(FloorSteps(d2) * (2 - (aggressiveness - 7)), 2)
    ELSE FloorSteps(d2)

\* the points a step of the walk appended after the flushed mean
Inserted == SubSeq(downsampled', Len(downsampled) + 2, Len(downsampled'))

\* lastRaw + (k / (n + 1)) * (newPoint - lastRaw), rounded to the unit
PointAt(k, n, from, to) ==
    << RoundDiv(from[1] * (n + 1) + k * (to[1] - from[1]), n + 1),
       RoundDiv(from[2] * (n + 1) + k * (to[2] - from[2]), n + 1) >>

\* v lies between a and b, ends included
Between(x, a, b) == Min(a, b) <= x /\ x <= Max(a, b)

\* a step of the serial walk that flushes the active group
FlushStep == dpc = "walk" /\ walkI' = walkI + 1 /\ ~WithinSpread

InGrid(px, py) ==
    /\ 0 <= px /\ px <= outputSize
    /\ 0 <= py /\ py <= outputSize

\* the view bounds have a positive width and a positive height
PositiveExtent ==
    /\ ViewBounds(links).minX < ViewBounds(links).maxX
    /\ ViewBounds(links).minY < ViewBounds(links).maxY

\* C29 as stated: for every trajectory the short-circuit does not collapse,
\* every pixel bin the downsampler computes is defined and lies in
\* 0..outputResolution on both axes, also for a bounding box of zero width or
\* height; no normalization divides by zero
C29_BinsInGrid ==
    /\ (dpc = "walk" /\ ~InvalidConfig) =>
          /\ PositiveExtent
          /\ InGrid(currentGroup.pixelX, currentGroup.pixelY)
    /\ (dpc \in {"merge", "return"} /\ entry = "parallel" /\ ~InvalidConfig) =>
          \A c \in DOMAIN collected :
              Len(collected[c].points) > 0 =>
                  /\ PositiveExtent
                  /\ InGrid(collected[c].lastPx, collected[c].lastPy)

\* origin a comes before origin b: an earlier group, or the same group and an
\* earlier place after its mean
Before(a, b) == a[1] < b[1] \/ (a[1] = b[1] /\ a[2] < b[2])

\* a downsampling call returned the outcome of a walk, not of the short-circuit
WalkReturned == dpc = "return" /\ Len(links) > 0 /\ Len(origin) > 0

\* C30: the reduced trajectory preserves temporal order in the sequential and
\* the parallel path: group means appear in the order in which their groups
\* occur in the input, and the points interpolated after a flushed group
\* appear after that group's mean and before the mean of the next group
C30_TemporalOrder ==
    WalkReturned =>
        /\ Len(origin) = Len(returned)
        /\ origin[1][2] = 0
        /\ \A k \in 1..(Len(origin) - 1) : Before(origin[k], origin[k + 1])
        /\ \A k \in 1..Len(origin) :
              /\ origin[k][1] \in 0..(Len(links) - 1)
              /\ origin[k][2] > 0 => (k > 1 /\ origin[k - 1] = <<origin[k][1], origin[k][2] - 1>>)

\* the parallel reducer returned, after results arrived out of order, a
\* trajectory with two or more means and points interpolated after a mean
\* that is not the first
C30_Witness ==
    /\ WalkReturned
    /\ entry = "parallel"
    /\ ~BelowThreshold(links)
    /\ arrivedOutOfOrder
    /\ \E k \in 2..Len(origin) : origin[k][1] > 0 /\ origin[k][2] > 0
    /\ \E k \in 2..Len(origin) : origin[k][1] > 0 /\ origin[k][2] = 0

\* ------------------------------------------------- termination of downsampleComplex
\* a call of downsampleComplex with enough links for the parallel path, on
\* a trajectory that runs from (0,0) to (0.03,0.03)
ParallelInit ==
    /\ EngineIdle /\ DSInit /\ GroupIdle /\ RSIdle /\ ClientIdle /\ NatsIdle /\ EMIdle
    /\ dpc = "parallel"
    /\ ~BelowThreshold(links)
    /\ links[1] = <<0, 0>>
    /\ links[Len(links)] = <<300, 300>>

ParallelNext ==
    \/ ParallelEnter
    \/ Spawn
    \/ SpawnEnd
    \/ \E c \in 0..MaxCPU : ChunkWorker(c)
    \/ CloseResults
    \/ Receive
    \/ CollectEnd
    \/ Merge
    \/ MergeEnd

\* main can take its next step: it is not blocked in its range over results
MainCanStep ==
    \/ dpc \in {"parallel", "spawn", "merge"}
    \/ dpc = "collect" /\ (Len(results) > 0 \/ closed)

MainStep == ParallelEnter \/ Spawn \/ SpawnEnd \/ Receive \/ CollectEnd \/ Merge \/ MergeEnd

\* the Go scheduler runs every goroutine that can run: weak fairness of
\* main, of each worker and of the closing goroutine, each written out as
\* []<>~enabled \/ []<>step with the guard of the step for enabled
DSFairness ==
    /\ []<>~MainCanStep \/ []<><<MainStep>>_vars
    /\ \A c \in 0..MaxCPU : []<>~CanSend(c) \/ []<><<ChunkWorker(c)>>_vars
    /\ []<>~CanClose \/ []<><<CloseResults>>_vars

FairSpec == ParallelInit /\ [][ParallelNext]_vars /\ DSFairness

\* the workers that have sent their result
Sent == {c \in DOMAIN chunkWorker : chunkWorker[c].at = "done"}

\* a started worker finds room on the channel
NoSendBlocks ==
    \A c \in DOMAIN chunkWorker :
        chunkWorker[c].at = "ready" => Len(results) < ResultsCapacity(numWorkers)

\* results holds and has held one result per worker that sent, no more
OneResultEach ==
    /\ Len(results) <= numWorkers
    /\ received + Len(results) = Cardinality(Sent)
    /\ \A j, k \in 1..Len(results) : results[j].index = results[k].index => j = k
    /\ \A j \in 1..Len(results) : results[j].index \in Sent

\* the channel is closed only once every worker has sent
ClosedAfterAll == closed => w = numWorkers /\ Cardinality(Sent) = numWorkers

\* main leaves its range loop with numWorkers results
AllReceived == dpc \in {"merge", "return"} /\ entry = "parallel" /\ w > 0 => received = numWorkers

\* C31: the parallel downsampleComplex terminates: every worker, one with
\* an empty range included, sends one result and never blocks on the send,
\* the channel is closed once all workers have sent, and main receives
\* numWorkers results and returns
C31_Terminates ==
    /\ [](NoSendBlocks /\ OneResultEach /\ ClosedAfterAll /\ AllReceived)
    /\ [][closed => closed']_vars
    /\ (dpc = "spawn") ~> (dpc = "return" /\ received = numWorkers)

\* a parallel call with a worker whose range is empty has returned
C31_Witness ==
    /\ dpc = "return"
    /\ entry = "parallel"
    /\ received = numWorkers
    /\ \E c \in DOMAIN chunkWorker : chunkWorker[c].start >= chunkWorker[c].end

\* ------------------------------------------------- every point in one group
RECURSIVE SumOfCounts(_, _)
SumOfCounts(cs, k) == IF k = 0 THEN 0 ELSE cs[k] + SumOfCounts(cs, k - 1)

\* the first input index of each flushed group, in the order of the output
GroupFirsts == SelectSeq(origin, LAMBDA o : o[2] = 0)

\* the flushed groups lie one after the other from the first input point on,
\* each with one point or more
GroupsTile ==
    /\ Len(GroupFirsts) = Len(counts)
    /\ \A k \in 1..Len(counts) :
          /\ counts[k] >= 1
          /\ GroupFirsts[k] = <<SumOfCounts(counts, k - 1), 0>>

\* C37: in a run that is not collapsed every input point is accumulated into
\* one group: during the serial walk the counts of the flushed groups and of
\* the active group add up to the number of points consumed, every flushed
\* group holds one point or more, and once the serial or the parallel call has
\* returned the counts of all groups add up to len(links)
C37_EveryPointOnce ==
    /\ dpc = "walk" =>
          /\ GroupsTile
          /\ currentGroup.count >= 1
          /\ SumOfCounts(counts, Len(counts)) + currentGroup.count = walkI
    /\ WalkReturned =>
          /\ GroupsTile
          /\ SumOfCounts(counts, Len(counts)) = Len(links)

\* the parallel reducer returned groups of several chunks, one of them with
\* two points or more
C37_Witness ==
    /\ WalkReturned
    /\ entry = "parallel"
    /\ ~BelowThreshold(links)
    /\ Len(counts) >= 2
    /\ \E k \in 1..Len(counts) : counts[k] >= 2
    /\ \E c \in DOMAIN chunkWorker : chunkWorker[c].start > 0 /\ chunkWorker[c].start < chunkWorker[c].end

\* ------------------------------------------------- groups stay within a chunk
\* the chunk of the input that holds input index idx
ChunkOfPoint(idx) == idx \div DSChunkSize

\* chunk c of the input holds no link
EmptyChunk(c) == c * DSChunkSize >= Len(links)

\* the parallel path ran and returned the merged walks of its workers
ParallelWalkReturned == WalkReturned /\ entry = "parallel" /\ ~BelowThreshold(links)

\* C38: the parallel reducer never accumulates points of two chunks into one
\* group: every group of the output lies within one chunk, every non-empty
\* chunk contributes the group seeded by its first point, and the workers
\* with an empty range are those whose start index is at or beyond
\* len(links), a suffix of the worker indices
C38_GroupsWithinChunk ==
    ParallelWalkReturned =>
        /\ Len(GroupFirsts) = Len(counts)
        /\ \A k \in 1..Len(counts) :
              ChunkOfPoint(GroupFirsts[k][1]) = ChunkOfPoint(GroupFirsts[k][1] + counts[k] - 1)
        /\ \A c \in 0..(numWorkers - 1) :
              /\ ~EmptyChunk(c) => \E k \in 1..Len(counts) : GroupFirsts[k][1] = c * DSChunkSize
              /\ EmptyChunk(c) <=> chunkWorker[c].start >= chunkWorker[c].end
              /\ EmptyChunk(c) <=> Len(collected[c].points) = 0
              /\ EmptyChunk(c) => \A d \in c..(numWorkers - 1) : EmptyChunk(d)

\* the parallel reducer returned with an empty chunk after two chunks or
\* more that are not, one of them with a group of two points or more
C38_Witness ==
    /\ ParallelWalkReturned
    /\ \E c \in 2..(numWorkers - 1) : EmptyChunk(c)
    /\ \E k \in 1..Len(counts) : counts[k] >= 2

\* ------------------------------------------------- the input is left as it is
\* C39: downsampleComplexSerial and downsampleComplex never modify the
\* elements of the input trajectory: no step of either, of main or of a
\* worker, changes links, so the caller's originalLinks holds the same
\* values after the call as before it
C39_InputUnchanged == [][links' = links]_vars

\* a walk returned a trajectory that differs from its input, with two points
\* or more
C39_Witness ==
    /\ WalkReturned
    /\ Len(returned) >= 2
    /\ returned # links
    /\ entry = "parallel" => ~BelowThreshold(links)

\* ------------------------------------------------- links of eulerMaclaurinWithLinks
\* the cumulative sums of the terms 1..N-1 over the whole range
WholeRangeLinks == computePartialSumWithLinks(1, emN, emS).links

\* eulerMaclaurinWithLinks has returned
EMLinksReturned == emPc = "return" /\ emWithLinks

\* C32: eulerMaclaurinWithLinks returns its links as a trajectory in
\* term-index order, element i being the cumulative sum of the terms 1..i+1
\* over the whole range, for every chunk count and every order in which the
\* goroutines deliver their link lists
C32_LinksInTermOrder == EMLinksReturned => emAllLinks = WholeRangeLinks

\* ------------------------------------------------- termination of eulerMaclaurin
\* a call of eulerMaclaurinWithLinks or of eulerMaclaurin alone
EMOnlyInit ==
    EngineIdle /\ DSIdle /\ GroupIdle /\ RSIdle /\ ClientIdle /\ NatsIdle /\ EMInit

EMMainStep ==
    EMEnter \/ EMLaunch \/ EMLaunchEnd \/ EMReceiveSum \/ EMResultsEnd \/ EMReceiveLinks
        \/ EMLinksEnd

EMNext ==
    \/ EMEnter
    \/ EMLaunch
    \/ EMLaunchEnd
    \/ \E j \in 1..MaxTerms : EMSendSum(j)
    \/ \E j \in 1..MaxTerms : EMSendLinks(j)
    \/ EMClose
    \/ EMReceiveSum
    \/ EMResultsEnd
    \/ EMReceiveLinks
    \/ EMLinksEnd

\* the caller of eulerMaclaurin can take its next step
EMMainCanStep ==
    \/ emPc \in {"enter", "launch"}
    \/ emPc = "results" /\ (Len(emResults) > 0 \/ emClosed)
    \/ emPc = "links" /\ (Len(emLinksCh) > 0 \/ emClosed)

\* the Go scheduler runs every goroutine that can run: the caller, each
\* computing goroutine and the closing goroutine
EMFairness ==
    /\ []<>~EMMainCanStep \/ []<><<EMMainStep>>_vars
    /\ \A j \in 1..MaxTerms :
           []<>~(CanSendSum(j) \/ CanSendLinks(j))
               \/ []<><<EMSendSum(j) \/ EMSendLinks(j)>>_vars
    /\ []<>~EMCanClose \/ []<><<EMClose>>_vars

EMFairSpec == EMOnlyInit /\ [][EMNext]_vars /\ EMFairness

\* no goroutine waits for room on a channel
NoEMSendBlocks ==
    \A j \in DOMAIN emWorker :
        /\ emWorker[j].at = "sum" => Len(emResults) < Capacity(emN, emChunkSize)
        /\ emWorker[j].at = "links" => Len(emLinksCh) < Capacity(emN, emChunkSize)

\* the channels are closed only once the launch loop has ended and every
\* goroutine has sent what it sends
EMClosedAfterAll ==
    emClosed => /\ emStart >= emN
                /\ \A j \in DOMAIN emWorker : emWorker[j].at = "done"

\* the partial sums of the goroutines named by from, added up in that order
RECURSIVE SumInOrder(_, _)
SumInOrder(from, k) ==
    IF k = 0 THEN Zero
    ELSE CAdd(SumInOrder(from, k - 1),
              computePartialSumWithLinks(emWorker[from[k]].start, emWorker[from[k]].end,
                                         emS).sum)

\* seq names each goroutine once
OncePerChunk(seq) ==
    /\ Len(seq) = Len(emWorker)
    /\ {seq[k] : k \in 1..Len(seq)} = DOMAIN emWorker

\* the caller has received one partial sum (and one link list) per chunk and
\* returns their sum with the correction terms
EMReturnsSum ==
    emPc = "return" =>
        /\ OncePerChunk(emSumFrom)
        /\ emWithLinks => OncePerChunk(emListFrom)
        /\ emTotal = CAdd(SumInOrder(emSumFrom, Len(emSumFrom)), Correction(emN, emS))

\* C33: eulerMaclaurinWithLinks and eulerMaclaurin terminate for every
\* N >= 0 and every scheduling: the channels have room for every goroutine
\* started, so no send blocks; the channels are closed once, after all
\* goroutines are done; the caller receives one partial sum (and one link
\* list) per chunk, and the total is the sum of all chunk sums
C33_Terminates ==
    /\ [](Len(emWorker) <= Capacity(emN, emChunkSize) \/ emPc = "enter")
    /\ [](NoEMSendBlocks /\ EMClosedAfterAll /\ EMReturnsSum)
    /\ [][emClosed => emClosed']_vars
    /\ (emPc = "enter") ~> (emPc = "return")

\* eulerMaclaurinWithLinks has returned after two chunks or more whose
\* partial sums did not arrive in launch order
C33_Witness ==
    /\ emPc = "return"
    /\ emWithLinks
    /\ Len(emWorker) >= 2
    /\ emSumFrom[1] # 1

\* ------------------------------------------------------------- NATS reducer
\* the first k decoded partial sums, added up in the order of their arrival
RECURSIVE SumOfFirst(_, _)
SumOfFirst(sums, k) ==
    IF k = 0 THEN Zero ELSE CAdd(SumOfFirst(sums, k - 1), sums[k])

C36_CounterNeverNegative == rdWg >= 0

\* ------------------------------------------ client, workers and reducer
\* the client starts while the workers and the reducer are up
NatsOnlyInit ==
    EngineIdle /\ DSIdle /\ GroupIdle /\ RSIdle /\ ClientInit /\ NatsInit /\ EMIdle

ClientStep == Publish \/ PublishEnd \/ ClientRequest \/ ClientTimeout

ReducerStep == ReducerAdd \/ ReducerWake \/ ReducerPublish

NatsNext ==
    \/ Publish
    \/ PublishEnd
    \/ ClientRequest
    \/ ClientTimeout
    \/ \E j \in 1..MaxTerms : WorkerAnswer(j)
    \/ Deliver
    \/ CallbackDone
    \/ ReducerAdd
    \/ ReducerWake
    \/ ReducerPublish

\* every process runs when it can: the client (its wait ends after ten
\* seconds at the latest), the workers (weak fairness written out with the
\* guard of their step), the delivery of messages to the reducer's callback,
\* and the reducer's main goroutine
NatsFairSpec ==
    /\ NatsOnlyInit
    /\ [][NatsNext]_vars
    /\ WF_vars(ClientStep)
    /\ []<>~(\E j \in 1..MaxTerms : Unanswered(j))
           \/ []<><<\E j \in 1..MaxTerms : WorkerAnswer(j)>>_vars
    /\ WF_vars(Deliver \/ CallbackDone)
    /\ WF_vars(ReducerStep)

\* the publishing loop has ended and a worker has answered every request
AllAnswered ==
    /\ cpc \in {"request", "waiting"}
    /\ handled = DOMAIN published

\* C35: once every chunk request published by the client has been answered
\* by a worker, the reducer eventually publishes the final result and the
\* client's wait for the final result completes with that value instead of
\* timing out, for every number of chunks
C35_ClientGetsFinalResult ==
    AllAnswered ~> (finalPublished # <<>> /\ cpc = "final")

====
